---- MODULE Spec2Model ----
(***************************************************************************)
(* Request-processing core of curie-ai:                                    *)
(*   - utils/dedupe.py        DedupeCache (thread-safe TTL + FIFO cache)   *)
(*   - llm/manager.py         ask_llm, ResponseCache, model loading        *)
(*   - agent/chat_workflow.py ChatWorkflow.process_message and its caches  *)
(*                                                                         *)
(* The specifications share the module's variables:                        *)
(*   SpecDedupe, SpecDedupeSeq      threads calling DedupeCache.check      *)
(*   SpecLlm                        callers of ask_llm                     *)
(*   SpecWorkflow, SpecWorkflowSeq  calls of process_message               *)
(* Each leaves the variables of the components it does not exercise at     *)
(* their initial values.                                                   *)
(***************************************************************************)
EXTENDS Integers, Sequences, FiniteSets, TLC

(***************************************************************************)
(* Bounds of the model                                                     *)
(***************************************************************************)
\* the simulated clock (time.time()) runs over 0..MaxTime
MaxTime == 3
\* largest ttl_seconds / max_size a DedupeCache is constructed with
MaxTtl == 2
MaxSize == 2

\* Python's None, for Optional[float] values (timestamps are >= 0)
None == -1

Max(a, b) == IF a >= b THEN a ELSE b
Min(a, b) == IF a <= b THEN a ELSE b

(***************************************************************************)
(* DedupeCache (utils/dedupe.py)                                           *)
(***************************************************************************)
Threads == {"t1", "t2"}
\* keys passed to check(); "" stands for both None and the empty string
Keys == {"k1", "k2", "k3"}
FalsyKeys == {""}
AllKeys == Keys \cup FalsyKeys

\* insertedAt value of a key the size limit has removed
Evicted == None - 1

VARIABLES
    clock,               \* time.time()
    construction,        \* DedupeCache(ttl_seconds, max_size): the arguments
                         \* and the outcome ("" while it has not been called)
    ttl_seconds,         \* DedupeCache.ttl_seconds
    max_size,            \* DedupeCache.max_size
    cache,               \* DedupeCache._cache: dict in iteration order, <<[key, ts]>>
    lock,                \* DedupeCache._lock: holder thread, or "" when free
    pc,                  \* per thread: position inside check()
    key,                 \* per thread: check()'s key argument
    now,                 \* per thread: check()'s now
    existing_timestamp,  \* per thread: check()'s local existing_timestamp
    \* history variables (observations of the run, not program state)
    last,                \* the most recent return of check(): its key, its value
                         \* and the existing_timestamp it had found
    fifo,                \* cached keys in the order they were last inserted as new
    insertedAt           \* key -> timestamp of its last insertion as new,
                         \*        None (never inserted) or Evicted

historyVars == <<last, fifo, insertedAt>>

dedupeVars == <<construction, ttl_seconds, max_size, cache, lock, pc, key, now,
                existing_timestamp, historyVars>>

\* llm/manager.py
VARIABLES
    provider,            \* llm_config["provider"]
    llama_installed,     \* Llama is not None
    llama_models_cache,  \* dict of loaded models, as its keys in iteration order
    response_cache,      \* _response_cache: <<[key, response, ts]>> in order
    asks,                \* number of ask_llm calls made so far
    ask,                 \* per caller: the frame of its ask_llm call: position
                         \* (pc) and the locals prompt, model_name ("" for
                         \* None), temperature (in tenths), max_tokens,
                         \* llama_model ("" for None), prompt_tokens (None
                         \* while not known), capped_max_tokens and
                         \* _cleanup_excess_models' excess_models
    \* history variable
    answered             \* the most recent return of ask_llm: the caller,
                         \* whether the model was invoked for inference, and
                         \* the value returned

llmVars == <<provider, llama_installed, llama_models_cache, response_cache,
             asks, ask, answered>>

\* agent/chat_workflow.py
VARIABLES
    dedupe_cache,        \* ChatWorkflow.dedupe_cache.cache: OrderedDict in order,
                         \* <<[key, ts, response]>>
    prompt_cache,        \* ChatWorkflow.prompt_cache: [cache, hits, misses],
                         \* cache an OrderedDict in order, <<[key, value]>>
    conversations,       \* the history store: <<[internal_id, role, message]>>
    deliveries,          \* number of process_message calls made so far
    req,                 \* per request: the frame of its process_message call:
                         \* position (pc), normalized_input (input) and the
                         \* locals internal_id, user_text, history and response
    \* history variables
    returned,            \* the most recent outcome of process_message
    completed            \* normalized_input -> the outcome of the most recent
                         \* call that has finished for it

wfVars == <<dedupe_cache, prompt_cache, conversations, deliveries, req,
            returned, completed>>

\* calls of single functions made on their own
VARIABLES
    built,               \* the most recent _build_structured_prompt call: the
                         \* time of the call, its history and user_text, whether
                         \* the prompt cache was hit, and the prompt returned
    sanitizing,          \* _sanitize_output applied repeatedly: the number of
                         \* applications so far, the text before the last one
                         \* and the text now
    filtering,           \* _sanity_filter_response: its argument and, once it
                         \* has run, its return value
    cache_call,          \* the most recent call of a method of a cache made on
                         \* its own: the method (op), its key, the value it was
                         \* given or returned, and the time of the call
    touched              \* history variable: the keys given to PromptCache in
                         \* the order of their last get hit or set

callVars == <<built, sanitizing, filtering, cache_call, touched>>

vars == <<clock, dedupeVars, llmVars, wfVars, callVars>>

\* ---- Python dict operations on the ordered representation ----
DictKeys(d) == {d[i].key : i \in 1..Len(d)}

\* dict.get(key): the stored value, or None
DictGet(d, k) ==
    IF k \in DictKeys(d)
    THEN (CHOOSE e \in {d[i] : i \in 1..Len(d)} : e.key = k).ts
    ELSE None

\* d[key] = value: an existing key keeps its place in the iteration order,
\* a new key goes to the end
DictSet(d, k, v) ==
    IF k \in DictKeys(d)
    THEN [i \in 1..Len(d) |-> IF d[i].key = k THEN [key |-> k, ts |-> v] ELSE d[i]]
    ELSE Append(d, [key |-> k, ts |-> v])

\* _prune, first half: del every entry with timestamp < now - ttl_seconds
RemoveExpired(d, ttl, n) ==
    IF ttl > 0
    THEN LET cutoff == n - ttl
             Keep(e) == ~(e.ts < cutoff)
         IN SelectSeq(d, Keep)
    ELSE d

\* mutant: the size loop stops one entry early
RECURSIVE EnforceSizeLax(_, _)
EnforceSizeLax(d, size) ==
    IF size > 0 /\ Len(d) > size + 1
    THEN EnforceSizeLax(Tail(d), size)
    ELSE d

\* _prune, second half: while len > max_size: del next(iter(cache))
RECURSIVE EnforceSize(_, _)
EnforceSize(d, size) ==
    IF size > 0 /\ Len(d) > size
    THEN EnforceSize(Tail(d), size)
    ELSE d

Prune(d, ttl, size, n) == EnforceSize(RemoveExpired(d, ttl, n), size)

\* mutant: no key is rejected
IsFalsyNever(k) == FALSE

\* check(): "if not key"
IsFalsy(k) == k \in FalsyKeys

\* mutant: an entry exactly ttl_seconds old still counts as a duplicate
IsHitInclusive(existing, ttl, n) ==
    existing # None /\ (ttl <= 0 \/ (n - existing) <= ttl)

\* check(): the test that makes a present key a duplicate
IsHit(existing, ttl, n) ==
    existing # None /\ (ttl <= 0 \/ (n - existing) < ttl)

\* mutant: a hit refreshes the key's timestamp
CheckedCacheTouch(d, k, existing, ttl, size, n) ==
    Prune(DictSet(d, k, n), ttl, size, n)

\* the dict after check()'s locked section
CheckedCache(d, k, existing, ttl, size, n) ==
    IF IsHit(existing, ttl, n)
    THEN Prune(d, ttl, size, n)
    ELSE Prune(DictSet(d, k, n), ttl, size, n)

\* mutant: the locked section is entered without waiting
LockFreeAlways(l) == TRUE

\* "with self._lock" can enter
LockFree(l) == l = ""

\* mutant: only ttl_seconds is validated
InvalidArgsTtlOnly(ttl, size) == ttl < 0

\* __init__: the arguments that raise ValueError
InvalidArgs(ttl, size) == ttl < 0 \/ size < 0

\* no thread is inside check(), and no check has returned
NoCheck ==
    /\ pc = [t \in Threads |-> "idle"]
    /\ key = [t \in Threads |-> ""]
    /\ now = [t \in Threads |-> 0]
    /\ existing_timestamp = [t \in Threads |-> None]
    /\ last = [key |-> "", value |-> FALSE, existing |-> None, returned |-> FALSE]
    /\ fifo = <<>>
    /\ insertedAt = [k \in AllKeys |-> None]

\* before DedupeCache(...) is called there is no instance
NotConstructed ==
    /\ construction = [ttl_seconds |-> None, max_size |-> None, outcome |-> ""]
    /\ ttl_seconds = None
    /\ max_size = None
    /\ cache = <<>>
    /\ lock = ""
    /\ NoCheck

\* DedupeCache(ttl, size): ValueError for a negative argument, before any
\* attribute is set; else the instance with an empty cache
DedupeCacheNew(ttl, size) ==
    /\ construction.outcome = ""
    /\ IF InvalidArgs(ttl, size)
       THEN /\ construction' = [ttl_seconds |-> ttl, max_size |-> size,
                                outcome |-> "ValueError"]
            /\ UNCHANGED <<ttl_seconds, max_size, cache, lock>>
       ELSE /\ construction' = [ttl_seconds |-> ttl, max_size |-> size,
                                outcome |-> "DedupeCache"]
            /\ ttl_seconds' = ttl
            /\ max_size' = size
            /\ cache' = <<>>
            /\ lock' = ""
    /\ UNCHANGED <<clock, pc, key, now, existing_timestamp, historyVars>>
    /\ UNCHANGED <<llmVars, wfVars, callVars>>

\* DedupeCache(ttl_seconds, max_size): both limits on, or both off (0)
DedupeInit ==
    /\ \/ ttl_seconds = MaxTtl /\ max_size = MaxSize
       \/ ttl_seconds = 0 /\ max_size = 0
    /\ construction = [ttl_seconds |-> ttl_seconds, max_size |-> max_size,
                       outcome |-> "DedupeCache"]
    /\ cache = <<>>
    /\ lock = ""
    /\ NoCheck

\* time passes
Tick ==
    /\ clock < MaxTime
    /\ clock' = clock + 1
    /\ UNCHANGED <<dedupeVars, llmVars, wfVars, callVars>>

\* check(key): a falsy key returns False at once
CheckFalsy(t, k) ==
    /\ construction.outcome = "DedupeCache"
    /\ pc[t] = "idle"
    /\ IsFalsy(k)
    /\ last' = [key |-> k, value |-> FALSE, existing |-> None, returned |-> TRUE]
    /\ UNCHANGED <<clock, construction, ttl_seconds, max_size, cache, lock, pc, key, now,
                   existing_timestamp, fifo, insertedAt>>
    /\ UNCHANGED <<llmVars, wfVars, callVars>>

\* check(key): now = time.time(), read before the lock is requested
CheckCall(t, k) ==
    /\ construction.outcome = "DedupeCache"
    /\ pc[t] = "idle"
    /\ ~IsFalsy(k)
    /\ pc' = [pc EXCEPT ![t] = "called"]
    /\ key' = [key EXCEPT ![t] = k]
    /\ now' = [now EXCEPT ![t] = clock]
    /\ UNCHANGED <<clock, construction, ttl_seconds, max_size, cache, lock,
                   existing_timestamp, historyVars>>
    /\ UNCHANGED <<llmVars, wfVars, callVars>>

\* with self._lock: existing_timestamp = self._cache.get(key)
CheckLookup(t) ==
    /\ pc[t] = "called"
    /\ LockFree(lock)
    /\ lock' = t
    /\ existing_timestamp' = [existing_timestamp EXCEPT ![t] = DictGet(cache, key[t])]
    /\ pc' = [pc EXCEPT ![t] = "locked"]
    /\ UNCHANGED <<clock, construction, ttl_seconds, max_size, cache, key, now, historyVars>>
    /\ UNCHANGED <<llmVars, wfVars, callVars>>

\* the rest of the locked section: hit or insert, _prune, release, return;
\* the frame's locals are gone
CheckFinish(t) ==
    /\ pc[t] = "locked"
    /\ LET k == key[t]
           n == now[t]
           hit == IsHit(existing_timestamp[t], ttl_seconds, n)
           written == IF hit THEN cache ELSE DictSet(cache, k, n)
           after == CheckedCache(cache, k, existing_timestamp[t],
                                 ttl_seconds, max_size, n)
           bySize == DictKeys(RemoveExpired(written, ttl_seconds, n))
                        \ DictKeys(after)
           order == IF hit THEN fifo
                    ELSE Append(SelectSeq(fifo, LAMBDA x : x # k), k)
       IN /\ cache' = after
          /\ last' = [key |-> k, value |-> hit, existing |-> existing_timestamp[t],
                      returned |-> TRUE]
          /\ fifo' = SelectSeq(order, LAMBDA x : x \in DictKeys(after))
          /\ insertedAt' = [x \in AllKeys |->
                              IF x \in bySize THEN Evicted
                              ELSE IF x = k /\ ~hit THEN n
                              ELSE insertedAt[x]]
    /\ lock' = ""
    /\ pc' = [pc EXCEPT ![t] = "idle"]
    /\ key' = [key EXCEPT ![t] = ""]
    /\ now' = [now EXCEPT ![t] = 0]
    /\ existing_timestamp' = [existing_timestamp EXCEPT ![t] = None]
    /\ UNCHANGED <<clock, construction, ttl_seconds, max_size>>
    /\ UNCHANGED <<llmVars, wfVars, callVars>>

DedupeNext ==
    \/ Tick
    \/ \E t \in Threads, k \in AllKeys : CheckFalsy(t, k)
    \/ \E t \in Threads, k \in AllKeys : CheckCall(t, k)
    \/ \E t \in Threads : CheckLookup(t)
    \/ \E t \in Threads : CheckFinish(t)

\* the arguments DedupeCache is constructed with
TtlArgs == -1..MaxTtl
SizeArgs == -1..MaxSize

\* a DedupeCache is constructed and then used by one thread
ConstructNext ==
    \/ \E ttl \in TtlArgs, size \in SizeArgs : DedupeCacheNew(ttl, size)
    \/ Tick
    \/ \E k \in AllKeys : CheckFalsy("t1", k)
    \/ \E k \in AllKeys : CheckCall("t1", k)
    \/ CheckLookup("t1")
    \/ CheckFinish("t1")

\* the same cache used by one thread: check() calls strictly in sequence
DedupeSeqNext ==
    \/ Tick
    \/ \E k \in AllKeys : CheckFalsy("t1", k)
    \/ \E k \in AllKeys : CheckCall("t1", k)
    \/ CheckLookup("t1")
    \/ CheckFinish("t1")

(***************************************************************************)
(* Text: a Python str as a sequence of one-character strings               *)
(***************************************************************************)
\* str.isspace() of one character
IsSpace(c) == c \in {" ", "\t", "\n", "\r"}

RECURSIVE LStrip(_)
LStrip(s) == IF s # <<>> /\ IsSpace(Head(s)) THEN LStrip(Tail(s)) ELSE s

RECURSIVE RStrip(_)
RStrip(s) ==
    IF s # <<>> /\ IsSpace(s[Len(s)]) THEN RStrip(SubSeq(s, 1, Len(s) - 1)) ELSE s

\* str.strip()
Strip(s) == RStrip(LStrip(s))

UpperCase == <<"A", "B", "C", "D", "E", "F", "G", "H", "I", "J", "K", "L", "M",
               "N", "O", "P", "Q", "R", "S", "T", "U", "V", "W", "X", "Y", "Z">>
LowerCase == <<"a", "b", "c", "d", "e", "f", "g", "h", "i", "j", "k", "l", "m",
               "n", "o", "p", "q", "r", "s", "t", "u", "v", "w", "x", "y", "z">>

\* str.lower(), one character and a whole string
Lower(c) ==
    IF \E i \in 1..Len(UpperCase) : UpperCase[i] = c
    THEN LowerCase[CHOOSE i \in 1..Len(UpperCase) : UpperCase[i] = c]
    ELSE c
LowerStr(s) == [i \in 1..Len(s) |-> Lower(s[i])]

\* the first position >= i of s that holds white space, Len(s) + 1 if none
NextSpace(s, i) ==
    IF \E j \in i..Len(s) : IsSpace(s[j])
    THEN CHOOSE j \in i..Len(s) :
            IsSpace(s[j]) /\ \A k \in i..(j - 1) : ~IsSpace(s[k])
    ELSE Len(s) + 1

\* str.split(): the maximal runs of non-space characters
RECURSIVE Split(_)
Split(s) ==
    LET t == LStrip(s)
        e == NextSpace(t, 1)
    IN IF t = <<>> THEN <<>>
       ELSE <<SubSeq(t, 1, e - 1)>> \o Split(SubSeq(t, e, Len(t)))

DigitChars == <<"0", "1", "2", "3", "4", "5", "6", "7", "8", "9">>

\* str(n) of a natural number
RECURSIVE DecimalStr(_)
DecimalStr(n) ==
    IF n < 10 THEN <<DigitChars[n + 1]>>
    ELSE DecimalStr(n \div 10) \o <<DigitChars[(n % 10) + 1]>>

\* sep.join(parts)
RECURSIVE Join(_, _)
Join(parts, sep) ==
    IF parts = <<>> THEN <<>>
    ELSE IF Len(parts) = 1 THEN parts[1]
    ELSE parts[1] \o sep \o Join(Tail(parts), sep)

\* the first position >= i of s that holds c, 0 if none
FirstIndex(s, c, i) ==
    IF \E j \in i..Len(s) : s[j] = c
    THEN CHOOSE j \in i..Len(s) : s[j] = c /\ \A k \in i..(j - 1) : s[k] # c
    ELSE 0

\* s continues at position i with tag, letter case ignored (tag in lower case)
StartsWithCI(s, i, tag) ==
    /\ i + Len(tag) - 1 <= Len(s)
    /\ \A j \in 1..Len(tag) : Lower(s[i + j - 1]) = tag[j]

\* the None object where a str is expected
PyNone == <<"None">>

\* bool(x) of an Optional[str]
Truthy(x) == x # PyNone /\ x # <<>>

(***************************************************************************)
(* llm/manager.py                                                          *)
(***************************************************************************)
MODEL_CONTEXT_SIZE == 2048
CONTEXT_BUFFER_TOKENS == 16
MIN_AVAILABLE_TOKENS == 64
FALLBACK_MAX_TOKENS == 512
DEFAULT_MAX_TOKENS == 128
MAX_MODELS_IN_CACHE == 1
RESPONSE_CACHE_TTL == 300
RESPONSE_CACHE_MAX_SIZE == 100

\* ask_llm is called at most MaxAsks times in a run
MaxAsks == 2

Callers == {"a1", "a2"}
Models == {"A", "B"}
AVAILABLE_MODELS == <<"A", "B">>
DEFAULT_LLAMA_MODEL == AVAILABLE_MODELS[1]
Providers == {"llama.cpp", "openai", "other"}

\* the prompts of the model, named by the number of tokens they tokenize to
\* a prompt: its text and the number of tokens the model's tokenizer makes
\* of it
TokenCounts == {100, 1968, 1969, 2000}
Prompts == {[text |-> DecimalStr(n), tokens |-> n] : n \in TokenCounts}
Tokenize(p) == p.tokens
\* the max_tokens arguments (None: not given) and model_name arguments
MaxTokensArgs == {None, 2000}
ModelNameArgs == {"", "B"}
\* the temperature arguments, in tenths (0.7 is the default)
TemperatureArgs == {7}

\* _sanity_filter_response's replacement texts
CANNED_REPHRASE ==
    <<"I", "'", "m", " ", "h", "a", "v", "i", "n", "g", " ", "t", "r", "o",
      "u", "b", "l", "e", " ", "f", "o", "r", "m", "u", "l", "a", "t", "i",
      "n", "g", " ", "a", " ", "r", "e", "s", "p", "o", "n", "s", "e", ".",
      " ", "C", "o", "u", "l", "d", " ", "y", "o", "u", " ", "r", "e", "p",
      "h", "r", "a", "s", "e", " ", "t", "h", "a", "t", "?">>
CANNED_INVALID ==
    <<"I", " ", "a", "p", "o", "l", "o", "g", "i", "z", "e", ",", " ", "I",
      " ", "s", "e", "e", "m", " ", "t", "o", " ", "h", "a", "v", "e", " ",
      "g", "e", "n", "e", "r", "a", "t", "e", "d", " ", "a", "n", " ", "i",
      "n", "v", "a", "l", "i", "d", " ", "r", "e", "s", "p", "o", "n", "s",
      "e", ".", " ", "C", "o", "u", "l", "d", " ", "y", "o", "u", " ", "t",
      "r", "y", " ", "a", "s", "k", "i", "n", "g", " ", "a", "g", "a", "i",
      "n", "?">>
CANNED_UNSURE ==
    <<"I", "'", "m", " ", "n", "o", "t", " ", "s", "u", "r", "e", " ", "h",
      "o", "w", " ", "t", "o", " ", "r", "e", "s", "p", "o", "n", "d", " ",
      "t", "o", " ", "t", "h", "a", "t", ".">>

\* what the model may generate (result["choices"][0]["text"])
RawOutputs == { <<"H", "i">>, <<" ">>, <<"*", "h", "m", "*">> }

\* re.search(r"(.)\1{10,}", s): one character, not a newline, n times in a row
HasCharRun(s, n) ==
    \E i \in 1..(Len(s) - n + 1) :
        s[i] # "\n" /\ \A j \in i..(i + n - 1) : s[j] = s[i]

\* the longest run of equal consecutive words, compared in lower case
RECURSIVE MaxConsecutive(_, _, _, _)
MaxConsecutive(words, i, current, best) ==
    IF i > Len(words) THEN best
    ELSE IF LowerStr(words[i]) = LowerStr(words[i - 1])
         THEN MaxConsecutive(words, i + 1, current + 1, Max(best, current + 1))
         ELSE MaxConsecutive(words, i + 1, 1, best)

\* _sanity_filter_response(response)
SanityFilter(response) ==
    IF response = <<>> \/ Len(Strip(response)) = 0 THEN CANNED_REPHRASE
    ELSE IF HasCharRun(response, 11) THEN CANNED_INVALID
    ELSE IF Len(Split(response)) > 5
            /\ MaxConsecutive(Split(response), 2, 1, 1) > 3 THEN CANNED_INVALID
    ELSE IF Len(response) < 2 THEN CANNED_UNSURE
    ELSE response

\* ask_llm's return values: a text, or one of its bracketed error strings
TextReply(t) == [kind |-> "text", text |-> t, tokens |-> None]
ErrorReply(what) == [kind |-> what, text |-> <<>>, tokens |-> None]
PromptTooLong(n) == [kind |-> "prompt_too_long", text |-> <<>>, tokens |-> n]
NoReply == [kind |-> "", text |-> <<>>, tokens |-> None]
\* ask_llm is left by an exception instead of returning
RaisedReply(exception) == [kind |-> "raised", text |-> exception, tokens |-> None]

\* ResponseCache._make_key(prompt, temperature, max_tokens)
MakeKey(p, temp, mt) == <<p, temp, mt>>

ResponseKeys(rc) == {rc[i].key : i \in 1..Len(rc)}
ResponseEntry(rc, k) == CHOOSE e \in {rc[i] : i \in 1..Len(rc)} : e.key = k

\* mutant: an entry is returned whatever its age
ResponseCacheGetAnyAge(rc, k, t) ==
    IF k \in ResponseKeys(rc) THEN ResponseEntry(rc, k).response ELSE <<>>

\* ResponseCache.get: the response of a present, unexpired entry, else None
ResponseCacheGet(rc, k, t) ==
    IF k \in ResponseKeys(rc) /\ t - ResponseEntry(rc, k).ts < RESPONSE_CACHE_TTL
    THEN ResponseEntry(rc, k).response
    ELSE <<>>

\* ResponseCache.get: an expired entry is deleted by the lookup
ResponseCacheAfterGet(rc, k, t) ==
    IF k \in ResponseKeys(rc) /\ ~(t - ResponseEntry(rc, k).ts < RESPONSE_CACHE_TTL)
    THEN SelectSeq(rc, LAMBDA e : e.key # k)
    ELSE rc

RECURSIVE PopOldest(_, _)
PopOldest(rc, size) == IF Len(rc) > size THEN PopOldest(Tail(rc), size) ELSE rc

\* ResponseCache.set: write (an existing key keeps its place), FIFO eviction
ResponseCacheSet(rc, k, r, t) ==
    LET e == [key |-> k, response |-> r, ts |-> t]
        written == IF k \in ResponseKeys(rc)
                   THEN [i \in 1..Len(rc) |-> IF rc[i].key = k THEN e ELSE rc[i]]
                   ELSE Append(rc, e)
    IN PopOldest(written, RESPONSE_CACHE_MAX_SIZE)

SeqRange(q) == {q[i] : i \in 1..Len(q)}

\* _load_model_with_fallback(preferred): the first of preferred and
\* AVAILABLE_MODELS whose file exists and loads (loadable), "" if none does
RECURSIVE FirstLoadable(_, _)
FirstLoadable(candidates, loadable) ==
    IF candidates = <<>> THEN ""
    ELSE IF Head(candidates) # "" /\ Head(candidates) \in loadable
         THEN Head(candidates)
         ELSE FirstLoadable(Tail(candidates), loadable)
LoadModelWithFallback(preferred, loadable) ==
    FirstLoadable(<<preferred>> \o AVAILABLE_MODELS, loadable)

\* llama_models_cache[name] = model
ModelCachePut(mc, name) == IF name \in SeqRange(mc) THEN mc ELSE Append(mc, name)

\* _cleanup_excess_models: "if len(llama_models_cache) > MAX_MODELS_IN_CACHE"
HasExcessModels(mc) == Len(mc) > MAX_MODELS_IN_CACHE

\* _cleanup_excess_models: excess_models = list(llama_models_cache.keys())[1:]
ExcessModels(mc) == Tail(mc)

\* del llama_models_cache[model_name]
ModelCacheDel(mc, name) == SelectSeq(mc, LAMBDA x : x # name)

\* _cleanup_excess_models() run without interruption: del every key but the
\* first
CleanupExcessModels(mc) ==
    IF HasExcessModels(mc)
    THEN SelectSeq(mc, LAMBDA x : x \notin SeqRange(ExcessModels(mc)))
    ELSE mc

\* mutant: only the preferred model is taken from the cache
SelectCachedModelExact(mc, preferred) ==
    IF preferred \in SeqRange(mc) THEN preferred ELSE ""

\* ask_llm: the resident model to use, "" when nothing is resident
SelectCachedModel(mc, preferred) ==
    IF preferred \in SeqRange(mc) THEN preferred
    ELSE IF mc # <<>> THEN mc[1]
    ELSE ""

\* mutant: the reply budget ignores the reserved buffer
AvailableTokensNoBuffer(n) == MODEL_CONTEXT_SIZE - n

\* ask_llm: available_tokens
AvailableTokens(n) == MODEL_CONTEXT_SIZE - n - CONTEXT_BUFFER_TOKENS

\* mutant: the minimum is tested against the context window alone
PromptIsTooLongLax(n) == MODEL_CONTEXT_SIZE - n < MIN_AVAILABLE_TOKENS

\* ask_llm: "if available_tokens < MIN_AVAILABLE_TOKENS"
PromptIsTooLong(n) == AvailableTokens(n) < MIN_AVAILABLE_TOKENS

\* no call in progress
NoPrompt == [text |-> <<>>, tokens |-> 0]
IdleFrame == [pc |-> "idle", prompt |-> NoPrompt, model_name |-> "", temperature |-> 0,
              max_tokens |-> 0, llama_model |-> "", prompt_tokens |-> None,
              capped_max_tokens |-> 0, excess_models |-> <<>>]

LlmInit ==
    /\ provider \in Providers
    /\ llama_installed \in BOOLEAN
    /\ llama_models_cache = <<>>
    /\ response_cache = <<>>
    /\ asks = 0
    /\ ask = [a \in Callers |-> IdleFrame]
    /\ answered = [caller |-> "", invoked |-> FALSE, reply |-> NoReply]

\* ask_llm returns r; inv: the inference call was made
AskReturns(a, inv, r) ==
    /\ ask' = [ask EXCEPT ![a] = IdleFrame]
    /\ answered' = [caller |-> a, invoked |-> inv, reply |-> r]

\* ask_llm(prompt, model_name, temperature, max_tokens) up to the response
\* cache lookup
AskBegin(a, p, m, temp, mt) ==
    /\ ask[a].pc = "idle"
    /\ asks < MaxAsks
    /\ asks' = asks + 1
    /\ LET mtok == IF mt = None THEN DEFAULT_MAX_TOKENS ELSE mt
           f == [IdleFrame EXCEPT !.prompt = p, !.model_name = m,
                                  !.temperature = temp, !.max_tokens = mtok]
           k == MakeKey(p, temp, mtok)
           cached_response == ResponseCacheGet(response_cache, k, clock)
       IN IF provider = "openai"
          THEN AskReturns(a, FALSE, ErrorReply("openai_simulated"))
               /\ UNCHANGED response_cache
          ELSE IF provider # "llama.cpp"
          THEN AskReturns(a, FALSE, ErrorReply("unsupported_provider"))
               /\ UNCHANGED response_cache
          ELSE IF ~llama_installed
          THEN AskReturns(a, FALSE, ErrorReply("llama_cpp_not_installed"))
               /\ UNCHANGED response_cache
          ELSE /\ response_cache' = ResponseCacheAfterGet(response_cache, k, clock)
               /\ IF cached_response # <<>>
                  THEN AskReturns(a, FALSE, TextReply(cached_response))
                  ELSE /\ ask' = [ask EXCEPT ![a] = [f EXCEPT !.pc = "select"]]
                       /\ UNCHANGED answered
    /\ UNCHANGED <<provider, llama_installed, llama_models_cache>>
    /\ UNCHANGED <<clock, dedupeVars, wfVars, callVars>>

\* the model file name ask_llm prefers
PreferredModel(f) == IF f.model_name # "" THEN f.model_name ELSE DEFAULT_LLAMA_MODEL

\* ask_llm: use the preferred model if resident, else any resident model
AskSelect(a) ==
    /\ ask[a].pc = "select"
    /\ LET m == SelectCachedModel(llama_models_cache, PreferredModel(ask[a]))
       IN ask' = [ask EXCEPT ![a].llama_model = m,
                             ![a].pc = IF m = "" THEN "load" ELSE "budget"]
    /\ UNCHANGED <<provider, llama_installed, llama_models_cache, response_cache,
                   asks, answered>>
    /\ UNCHANGED <<clock, dedupeVars, wfVars, callVars>>

\* ask_llm: nothing resident: load with fallback and cache the model
AskLoad(a, loadable) ==
    /\ ask[a].pc = "load"
    /\ LET m == LoadModelWithFallback(PreferredModel(ask[a]), loadable)
       IN IF m = ""
          THEN /\ AskReturns(a, FALSE, ErrorReply("failed_to_load"))
               /\ UNCHANGED llama_models_cache
          ELSE /\ llama_models_cache' = ModelCachePut(llama_models_cache, m)
               /\ ask' = [ask EXCEPT ![a].llama_model = m, ![a].pc = "cleanup"]
               /\ UNCHANGED answered
    /\ UNCHANGED <<provider, llama_installed, response_cache, asks>>
    /\ UNCHANGED <<clock, dedupeVars, wfVars, callVars>>

\* _cleanup_excess_models, called by ask_llm after a load: the size test and
\* the list of the keys to delete
AskCleanup(a) ==
    /\ ask[a].pc = "cleanup"
    /\ IF HasExcessModels(llama_models_cache)
       THEN ask' = [ask EXCEPT ![a].excess_models = ExcessModels(llama_models_cache),
                               ![a].pc = "evict"]
       ELSE ask' = [ask EXCEPT ![a].pc = "budget"]
    /\ UNCHANGED <<provider, llama_installed, llama_models_cache, response_cache,
                   asks, answered>>
    /\ UNCHANGED <<clock, dedupeVars, wfVars, callVars>>

\* _cleanup_excess_models: one turn of "for model_name in excess_models: del
\* llama_models_cache[model_name]"; the del of a key that another caller has
\* deleted since the list was made raises KeyError, which nothing in ask_llm
\* catches
AskEvict(a) ==
    /\ ask[a].pc = "evict"
    /\ LET model_name == Head(ask[a].excess_models)
           rest == Tail(ask[a].excess_models)
       IN IF model_name \in SeqRange(llama_models_cache)
          THEN /\ llama_models_cache' = ModelCacheDel(llama_models_cache, model_name)
               /\ ask' = [ask EXCEPT ![a].excess_models = rest,
                                     ![a].pc = IF rest = <<>> THEN "budget"
                                               ELSE "evict"]
               /\ UNCHANGED answered
          ELSE /\ AskReturns(a, FALSE, RaisedReply(<<"KeyError">>))
               /\ UNCHANGED llama_models_cache
    /\ UNCHANGED <<provider, llama_installed, response_cache, asks>>
    /\ UNCHANGED <<clock, dedupeVars, wfVars, callVars>>

\* preload_llama_model(): load the default model with fallback and cache it;
\* it returns at once for another provider and raises RuntimeError when
\* llama_cpp is missing or no model loads
PreloadLlamaModel(loadable) ==
    /\ provider = "llama.cpp"
    /\ llama_installed
    /\ LoadModelWithFallback(DEFAULT_LLAMA_MODEL, loadable) # ""
    /\ llama_models_cache' =
          ModelCachePut(llama_models_cache,
                        LoadModelWithFallback(DEFAULT_LLAMA_MODEL, loadable))
    /\ UNCHANGED <<provider, llama_installed, response_cache, asks, ask, answered>>
    /\ UNCHANGED <<clock, dedupeVars, wfVars, callVars>>

\* ask_llm: tokenize the prompt and cap max_tokens; the tokenizer may raise
AskBudget(a, tokenizer_ok) ==
    /\ ask[a].pc = "budget"
    /\ IF tokenizer_ok
       THEN LET n == Tokenize(ask[a].prompt)
                f == [ask[a] EXCEPT !.prompt_tokens = n]
            IN IF PromptIsTooLong(n)
               THEN AskReturns(a, FALSE, PromptTooLong(n))
               ELSE /\ ask' = [ask EXCEPT ![a] =
                                 [f EXCEPT !.capped_max_tokens =
                                               Min(f.max_tokens, AvailableTokens(n)),
                                           !.pc = "infer"]]
                    /\ UNCHANGED answered
       ELSE /\ ask' = [ask EXCEPT ![a].capped_max_tokens =
                                      Min(ask[a].max_tokens, FALLBACK_MAX_TOKENS),
                                  ![a].pc = "infer"]
            /\ UNCHANGED answered
    /\ UNCHANGED <<provider, llama_installed, llama_models_cache, response_cache,
                   asks>>
    /\ UNCHANGED <<clock, dedupeVars, wfVars, callVars>>

\* ask_llm: the model generates raw; the reply is filtered, cached and returned
AskInfer(a, raw) ==
    /\ ask[a].pc = "infer"
    /\ LET response == SanityFilter(Strip(raw))
       IN /\ response_cache' =
                ResponseCacheSet(response_cache,
                                 MakeKey(ask[a].prompt, ask[a].temperature,
                                         ask[a].max_tokens),
                                 response, clock)
          /\ AskReturns(a, TRUE, TextReply(response))
    /\ UNCHANGED <<provider, llama_installed, llama_models_cache, asks>>
    /\ UNCHANGED <<clock, dedupeVars, wfVars, callVars>>

\* ask_llm: the inference call raises
AskInferRaises(a) ==
    /\ ask[a].pc = "infer"
    /\ AskReturns(a, TRUE, ErrorReply("error_during_inference"))
    /\ UNCHANGED <<provider, llama_installed, llama_models_cache, response_cache,
                   asks>>
    /\ UNCHANGED <<clock, dedupeVars, wfVars, callVars>>

LlmNext ==
    \/ \E a \in Callers, p \in Prompts, m \in ModelNameArgs,
          temp \in TemperatureArgs, mt \in MaxTokensArgs :
          AskBegin(a, p, m, temp, mt)
    \/ \E a \in Callers : AskSelect(a)
    \/ \E a \in Callers, loadable \in SUBSET Models : AskLoad(a, loadable)
    \/ \E a \in Callers : AskCleanup(a)
    \/ \E a \in Callers : AskEvict(a)
    \/ \E a \in Callers, tokenizer_ok \in BOOLEAN : AskBudget(a, tokenizer_ok)
    \/ \E a \in Callers, raw \in RawOutputs : AskInfer(a, raw)
    \/ \E a \in Callers : AskInferRaises(a)

\* ask_llm is called in sequence over at most MaxWaits waits of half the
\* response cache's TTL
MaxWaits == 3

\* the prompts of these calls: a short one and one that is too long
ResponsePrompts == {p \in Prompts : p.tokens \in {100, 2000}}

\* half of RESPONSE_CACHE_TTL passes
HalfTtlPasses ==
    /\ clock < MaxWaits * (RESPONSE_CACHE_TTL \div 2)
    /\ clock' = clock + RESPONSE_CACHE_TTL \div 2
    /\ UNCHANGED <<dedupeVars, llmVars, wfVars, callVars>>

\* ask_llm called by one caller, one call after the other, as time passes
\* (with one caller _cleanup_excess_models never finds a model to delete)
ResponsesNext ==
    \/ \E p \in ResponsePrompts, m \in ModelNameArgs, temp \in TemperatureArgs,
          mt \in MaxTokensArgs : AskBegin("a1", p, m, temp, mt)
    \/ AskSelect("a1")
    \/ \E loadable \in {{}, Models} : AskLoad("a1", loadable)
    \/ AskCleanup("a1")
    \/ \E tokenizer_ok \in BOOLEAN : AskBudget("a1", tokenizer_ok)
    \/ \E raw \in RawOutputs : AskInfer("a1", raw)
    \/ AskInferRaises("a1")
    \/ HalfTtlPasses

\* ask_llm calls, and preload_llama_model called at any time
ModelsNext ==
    \/ LlmNext
    \/ \E loadable \in SUBSET Models : PreloadLlamaModel(loadable)

\* ask_llm's error strings
ERROR_LLAMA_NOT_INSTALLED ==
    <<"[", "E", "r", "r", "o", "r", ":", " ", "l", "l", "a", "m", "a", "_",
      "c", "p", "p", " ", "n", "o", "t", " ", "i", "n", "s", "t", "a", "l",
      "l", "e", "d", "]">>
ERROR_FAILED_TO_LOAD ==
    <<"[", "E", "r", "r", "o", "r", ":", " ", "F", "a", "i", "l", "e", "d",
      " ", "t", "o", " ", "l", "o", "a", "d", " ", "a", "n", "y", " ", "a",
      "v", "a", "i", "l", "a", "b", "l", "e", " ", "m", "o", "d", "e", "l",
      "]">>
ERROR_UNSUPPORTED_PROVIDER ==
    <<"[", "E", "r", "r", "o", "r", ":", " ", "U", "n", "s", "u", "p", "p",
      "o", "r", "t", "e", "d", " ", "L", "L", "M", " ", "p", "r", "o", "v",
      "i", "d", "e", "r", "]">>
OPENAI_SIMULATED ==
    <<"[", "O", "p", "e", "n", "A", "I", " ", "s", "i", "m", "u", "l", "a",
      "t", "e", "d", " ", "r", "e", "s", "p", "o", "n", "s", "e", " ", "t",
      "o", "]", ":", " ">>
ERROR_PROMPT_TOO_LONG_1 ==
    <<"[", "E", "r", "r", "o", "r", ":", " ", "P", "r", "o", "m", "p", "t",
      " ", "t", "o", "o", " ", "l", "o", "n", "g", " ", "(">>
ERROR_PROMPT_TOO_LONG_2 ==
    <<" ", "t", "o", "k", "e", "n", "s", ")", ".", " ", "M", "a", "x", "i",
      "m", "u", "m", " ", "c", "o", "n", "t", "e", "x", "t", " ", "i", "s",
      " ">>
ERROR_PROMPT_TOO_LONG_3 ==
    <<" ", "t", "o", "k", "e", "n", "s", ".", "]">>
ERROR_DURING_INFERENCE ==
    <<"[", "E", "r", "r", "o", "r", " ", "d", "u", "r", "i", "n", "g", " ",
      "i", "n", "f", "e", "r", "e", "n", "c", "e", ":", " ">>
\* str(e) of an exception raised by a collaborator
EXCEPTION_TEXT == <<"b", "o", "o", "m">>

\* the str ask_llm returns, for the reply r to prompt p
ReplyText(r, p) ==
    CASE r.kind = "text" -> r.text
      [] r.kind = "openai_simulated" -> OPENAI_SIMULATED \o p.text
      [] r.kind = "unsupported_provider" -> ERROR_UNSUPPORTED_PROVIDER
      [] r.kind = "llama_cpp_not_installed" -> ERROR_LLAMA_NOT_INSTALLED
      [] r.kind = "failed_to_load" -> ERROR_FAILED_TO_LOAD
      [] r.kind = "prompt_too_long" ->
            ERROR_PROMPT_TOO_LONG_1 \o DecimalStr(r.tokens)
               \o ERROR_PROMPT_TOO_LONG_2 \o DecimalStr(MODEL_CONTEXT_SIZE)
               \o ERROR_PROMPT_TOO_LONG_3
      [] r.kind = "error_during_inference" ->
            ERROR_DURING_INFERENCE \o EXCEPTION_TEXT \o <<"]">>

\* the inference call raising, as an outcome of the model
InferenceRaises == <<"raise">>

\* ask_llm(p, m, temp, mt) run from call to return on the caches mc
\* (llama_models_cache) and rc (_response_cache) at time t, where loadable are
\* the model files that load, tokenizer_ok tells whether tokenize succeeds and
\* raw is what the model generates (InferenceRaises: the call raises):
\* the reply, whether inference was invoked, and the caches afterwards
AskLlm(p, m, temp, mt, mc, rc, t, loadable, tokenizer_ok, raw) ==
    LET mtok == IF mt = None THEN DEFAULT_MAX_TOKENS ELSE mt
        k == MakeKey(p, temp, mtok)
        cached_response == ResponseCacheGet(rc, k, t)
        rc1 == ResponseCacheAfterGet(rc, k, t)
        preferred == PreferredModel([model_name |-> m])
        resident == SelectCachedModel(mc, preferred)
        loaded == IF resident # "" THEN resident
                  ELSE LoadModelWithFallback(preferred, loadable)
        mc1 == IF resident = "" /\ loaded # ""
               THEN CleanupExcessModels(ModelCachePut(mc, loaded))
               ELSE mc
        n == Tokenize(p)
        response == SanityFilter(Strip(raw))
        Out(r, inv, models, responses) ==
            [reply |-> r, invoked |-> inv, models |-> models,
             responses |-> responses]
    IN IF provider = "openai"
       THEN Out(ErrorReply("openai_simulated"), FALSE, mc, rc)
       ELSE IF provider # "llama.cpp"
       THEN Out(ErrorReply("unsupported_provider"), FALSE, mc, rc)
       ELSE IF ~llama_installed
       THEN Out(ErrorReply("llama_cpp_not_installed"), FALSE, mc, rc)
       ELSE IF cached_response # <<>>
       THEN Out(TextReply(cached_response), FALSE, mc, rc1)
       ELSE IF loaded = ""
       THEN Out(ErrorReply("failed_to_load"), FALSE, mc, rc1)
       ELSE IF tokenizer_ok /\ PromptIsTooLong(n)
       THEN Out(PromptTooLong(n), FALSE, mc1, rc1)
       ELSE IF raw = InferenceRaises
       THEN Out(ErrorReply("error_during_inference"), TRUE, mc1, rc1)
       ELSE Out(TextReply(response), TRUE, mc1,
                ResponseCacheSet(rc1, k, response, t))

(***************************************************************************)
(* agent/chat_workflow.py                                                  *)
(***************************************************************************)
MESSAGE_DEDUPE_TTL == 600
MESSAGE_DEDUPE_MAX_SIZE == 5000
PROMPT_CACHE_MAX_SIZE == 100
MAX_HISTORY == 5
WORKFLOW_MAX_TOKENS == 512

\* process_message is called at most MaxDeliveries times in a run
MaxDeliveries == 2

Requests == {"r1", "r2"}

\* the normalized_input dicts delivered by the connectors: a well-formed
\* message and its variations
Message(uid, cid, mid, txt, iid) ==
    [platform |-> "api", external_user_id |-> uid, external_chat_id |-> cid,
     message_id |-> mid, text |-> txt, internal_id |-> iid]
Messages ==
    { Message("u1", "c1", "m1", <<"h", "i">>, ""),
      Message("u1", "c1", "m2", <<" ", "y", "o", " ">>, "U1"),
      Message("u1", "c1", "m3", PyNone, ""),
      Message("", "c1", "m4", <<" ">>, "") }
NoMessage == Message("", "", "", <<>>, "")
\* deliveries of a connector that gives no message_id (the key is missing or
\* empty: str(normalized_input.get('message_id', '')) is ''), with different
\* texts, in one chat
IdlessMessages ==
    { Message("u1", "c1", "", <<"h", "i">>, "U1"),
      Message("u1", "c1", "", <<"y", "o">>, "U1") }

\* what handle_coding_query may answer (None: no coding intent)
CodingResponses == { PyNone, <<"o", "k">> }

\* token counts the built prompt may come to
WorkflowTokenCounts == {100, 2000}
\* the model files that load when process_message needs one: none, or all
ModelFiles == {{}, Models}
\* what the model may generate for process_message, or the call raises
WorkflowOutputs == { <<"H", "i">>, <<"*", "h", "m", "*">>, InferenceRaises }

\* process_message's fixed error texts
ERROR_INVALID_MESSAGE_FORMAT ==
    <<"[", "E", "r", "r", "o", "r", ":", " ", "I", "n", "v", "a", "l", "i",
      "d", " ", "m", "e", "s", "s", "a", "g", "e", " ", "f", "o", "r", "m",
      "a", "t", "]">>
ERROR_PROCESSING_MESSAGE ==
    <<"[", "E", "r", "r", "o", "r", " ", "p", "r", "o", "c", "e", "s", "s",
      "i", "n", "g", " ", "m", "e", "s", "s", "a", "g", "e", ":", " ">>

\* the identity resolver: get_or_create_user_internal_id(channel, external_id)
InternalIdOf(channel, external_id) == IF external_id = "u1" THEN "U1" ELSE "U0"

\* MessageDedupeCache: key of get and set
DedupeKey(platform, external_chat_id, message_id) ==
    <<platform, external_chat_id, message_id>>

MessageKeys(dc) == {dc[i].key : i \in 1..Len(dc)}

\* MessageDedupeCache._cleanup_expired on a cache constructed with
\* ttl_seconds = ttl
CleanupExpiredAfter(dc, t, ttl) == SelectSeq(dc, LAMBDA e : ~(t - e.ts > ttl))

\* MessageDedupeCache._cleanup_expired on ChatWorkflow's dedupe cache
CleanupExpired(dc, t) == CleanupExpiredAfter(dc, t, MESSAGE_DEDUPE_TTL)

\* MessageDedupeCache.get on a cache constructed with ttl_seconds = ttl: the
\* cached response, None if there is none
MessageCacheGetWithin(dc, k, t, ttl) ==
    LET live == CleanupExpiredAfter(dc, t, ttl)
    IN IF k \in MessageKeys(live)
       THEN (CHOOSE e \in {live[i] : i \in 1..Len(live)} : e.key = k).response
       ELSE PyNone

\* MessageDedupeCache.get on ChatWorkflow's dedupe cache
MessageCacheGet(dc, k, t) == MessageCacheGetWithin(dc, k, t, MESSAGE_DEDUPE_TTL)

RECURSIVE PopFirst(_, _)
PopFirst(dc, size) == IF Len(dc) > size THEN PopFirst(Tail(dc), size) ELSE dc

\* MessageDedupeCache.set on a cache constructed with max_size = size: a
\* present key is overwritten where it is
MessageCacheSetTo(dc, k, response, t, size) ==
    LET e == [key |-> k, ts |-> t, response |-> response]
        written == IF k \in MessageKeys(dc)
                   THEN [i \in 1..Len(dc) |-> IF dc[i].key = k THEN e ELSE dc[i]]
                   ELSE Append(dc, e)
    IN PopFirst(written, size)

\* MessageDedupeCache.set on ChatWorkflow's dedupe cache
MessageCacheSet(dc, k, response, t) ==
    MessageCacheSetTo(dc, k, response, t, MESSAGE_DEDUPE_MAX_SIZE)

\* PromptCache.get and PromptCache.set
PromptKeys(c) == {c[i].key : i \in 1..Len(c)}
PromptEntry(c, k) == CHOOSE e \in {c[i] : i \in 1..Len(c)} : e.key = k
\* mutant: a hit is counted but leaves the entry where it is
PromptCacheGetInPlace(pcache, k) ==
    IF k \in PromptKeys(pcache.cache)
    THEN [value |-> PromptEntry(pcache.cache, k).value,
          after |-> [pcache EXCEPT !.hits = @ + 1]]
    ELSE [value |-> PyNone, after |-> [pcache EXCEPT !.misses = @ + 1]]

PromptCacheGet(pcache, k) ==
    IF k \in PromptKeys(pcache.cache)
    THEN [value |-> PromptEntry(pcache.cache, k).value,
          after |-> [pcache EXCEPT
                       !.hits = @ + 1,
                       !.cache = Append(SelectSeq(@, LAMBDA e : e.key # k),
                                        PromptEntry(pcache.cache, k))]]
    ELSE [value |-> PyNone, after |-> [pcache EXCEPT !.misses = @ + 1]]
\* PromptCache.set on a cache constructed with max_size = size
PromptCacheSetTo(pcache, k, v, size) ==
    [pcache EXCEPT
       !.cache = PopFirst(Append(SelectSeq(@, LAMBDA e : e.key # k),
                                 [key |-> k, value |-> v]),
                          size)]
\* PromptCache.set on ChatWorkflow's prompt cache
PromptCacheSet(pcache, k, v) == PromptCacheSetTo(pcache, k, v, PROMPT_CACHE_MAX_SIZE)

\* the history store's load_recent(internal_id, limit): the last limit turns
\* of the user, oldest first, as <<role, message>> pairs
LoadRecent(conv, internal_id, limit) ==
    LET mine == SelectSeq(conv, LAMBDA c : c.internal_id = internal_id)
        from == Max(1, Len(mine) - limit + 1)
    IN [i \in 1..(Len(mine) - from + 1) |->
           <<mine[from + i - 1].role, mine[from + i - 1].message>>]

\* the history store's append(internal_id, role, message)
SaveConversation(conv, internal_id, role, message) ==
    Append(conv, [internal_id |-> internal_id, role |-> role, message |-> message])

ROLE_USER == <<"u", "s", "e", "r">>
ROLE_ASSISTANT == <<"a", "s", "s", "i", "s", "t", "a", "n", "t">>
LABEL_USER == <<"U", "s", "e", "r">>
LABEL_ASSISTANT == <<"A", "s", "s", "i", "s", "t", "a", "n", "t">>
SYSTEM_PROMPT ==
    <<"Y", "o", "u", " ", "a", "r", "e", " ", "a", " ", "h", "e", "l", "p",
      "f", "u", "l", " ", "a", "s", "s", "i", "s", "t", "a", "n", "t", ".">>
HISTORY_HEADING ==
    <<"\n", "[", "C", "O", "N", "V", "E", "R", "S", "A", "T", "I", "O",
      "N", " ", "H", "I", "S", "T", "O", "R", "Y", "]">>
DATETIME_HEADING ==
    <<"\n", "[", "C", "U", "R", "R", "E", "N", "T", " ", "D", "A", "T",
      "E", " ", "A", "N", "D", " ", "T", "I", "M", "E", "]", "\n", "-", " ">>
INPUT_USER == <<"\n", "U", "s", "e", "r", ":", " ">>
INPUT_ASSISTANT == <<"A", "s", "s", "i", "s", "t", "a", "n", "t", ":">>

RoleChars(role) == IF role = "user" THEN ROLE_USER ELSE ROLE_ASSISTANT
RoleLabel(role) == IF role = "user" THEN LABEL_USER ELSE LABEL_ASSISTANT
Truncate(msg, n) == SubSeq(msg, 1, Min(n, Len(msg)))
LastTurns(history, n) ==
    SubSeq(history, Max(1, Len(history) - n + 1), Len(history))

\* _build_structured_prompt: history_str, the cache key's view of the history
HistoryStr(history) ==
    LET recent == LastTurns(history, 5)
    IN Join([i \in 1..Len(recent) |->
                RoleChars(recent[i][1]) \o <<":", " ">> \o Truncate(recent[i][2], 50)],
            <<"\n">>)

\* mutant: the time bucket changes once a day
TimeBucketDaily(t) == t \div 86400

\* _build_structured_prompt: the hourly time bucket of the clock (in seconds)
TimeBucket(t) == t \div 3600

\* _build_structured_prompt: the date/time block, with the date as the number
\* of the day and the time as hour:minute (UTC, the timezone of an empty
\* profile)
DateTimeBlock(t) ==
    DATETIME_HEADING \o DecimalStr(t \div 86400) \o <<"\n", "-", " ">>
       \o DecimalStr((t \div 3600) % 24) \o <<":">> \o DecimalStr((t \div 60) % 60)

\* _build_structured_prompt: the base prompt built on a cache miss (the fixed
\* rules that follow the system prompt are left out; the profile is empty)
BasePrompt(history) ==
    Join(<<SYSTEM_PROMPT>>
            \o (IF history # <<>> THEN <<HISTORY_HEADING>> ELSE <<>>)
            \o [i \in 1..Len(history) |->
                   RoleLabel(history[i][1]) \o <<":", " ">> \o history[i][2]],
         <<"\n">>)

\* _build_structured_prompt(user_profile, history, user_text) at time t on the
\* prompt cache pcache, for a prompt that tokenizes to n tokens: the prompt
\* and the prompt cache afterwards
BuildStructuredPrompt(pcache, history, user_text, t, n) ==
    LET k == <<SYSTEM_PROMPT, HistoryStr(history), TimeBucket(t)>>
        cached == PromptCacheGet(pcache, k)
        hit == cached.value # PyNone
        base_prompt == IF hit THEN cached.value[1] ELSE BasePrompt(history)
        after == IF hit THEN cached.after
                 ELSE PromptCacheSet(cached.after, k,
                                     <<base_prompt, Len(Split(base_prompt))>>)
        prompt_text == Join(<<base_prompt,
                              DateTimeBlock(t),
                              INPUT_USER \o user_text,
                              INPUT_ASSISTANT>>, <<"\n">>)
    IN [prompt |-> [text |-> prompt_text, tokens |-> n], prompt_cache |-> after]

\* the patterns of _sanitize_output, in lower case
SPEAKER_TAGS ==
    { <<"u", "s", "e", "r", ":">>, <<"c", "u", "r", "i", "e", ":">>,
      <<"a", "s", "s", "i", "s", "t", "a", "n", "t", ":">>,
      <<"c", "o", "d", "e", "r", ":">>, <<"s", "y", "s", "t", "e", "m", ":">> }
META_TAGS ==
    { <<"n", "o", "t", "e", ":">>, <<"m", "e", "t", "a", ":">>,
      <<"a", "s", "i", "d", "e", ":">>, <<"s", "y", "s", "t", "e", "m", ":">> }

\* SPEAKER_TAG_PATTERN.sub('', s): one tag at the start, after white space
RemoveSpeakerTag(s) ==
    LET t == LStrip(s)
    IN IF \E tag \in SPEAKER_TAGS : StartsWithCI(t, 1, tag)
       THEN LET tag == CHOOSE g \in SPEAKER_TAGS : StartsWithCI(t, 1, g)
            IN SubSeq(t, Len(tag) + 1, Len(t))
       ELSE s

\* the last position of a META_NOTE_PATTERN match that starts at s[1], 0 if none
MetaNoteEnd(s) ==
    IF s # <<>> /\ s[1] = "[" /\ \E tag \in META_TAGS : StartsWithCI(s, 2, tag)
    THEN LET tag == CHOOSE g \in META_TAGS : StartsWithCI(s, 2, g)
         IN FirstIndex(s, "]", 2 + Len(tag))
    ELSE 0

\* META_NOTE_PATTERN.sub('', s): every match, leftmost first, is cut out; a
\* match can only start at a "["
RECURSIVE RemoveMetaNotes(_)
RemoveMetaNotes(s) ==
    LET i == FirstIndex(s, "[", 1)
        from == SubSeq(s, i, Len(s))
        e == MetaNoteEnd(from)
    IN IF i = 0 THEN s
       ELSE IF e > 0
            THEN SubSeq(s, 1, i - 1) \o RemoveMetaNotes(SubSeq(from, e + 1, Len(from)))
            ELSE SubSeq(s, 1, i) \o RemoveMetaNotes(Tail(from))

\* ACTION_PATTERN.sub('', s): the leftmost match runs from the first "*" to
\* the next one
RECURSIVE RemoveActions(_)
RemoveActions(s) ==
    LET i == FirstIndex(s, "*", 1)
        j == FirstIndex(s, "*", i + 1)
    IN IF i = 0 \/ j = 0 THEN s
       ELSE SubSeq(s, 1, i - 1) \o RemoveActions(SubSeq(s, j + 1, Len(s)))

\* re.sub(r'\s+', ' ', s)
RECURSIVE CollapseSpaces(_)
CollapseSpaces(s) ==
    LET i == NextSpace(s, 1)
    IN IF i > Len(s) THEN s
       ELSE SubSeq(s, 1, i - 1) \o <<" ">>
               \o CollapseSpaces(LStrip(SubSeq(s, i, Len(s))))

\* _sanitize_output(response)
Sanitize(response) ==
    Strip(CollapseSpaces(Strip(RemoveActions(Strip(RemoveMetaNotes(
        Strip(RemoveSpeakerTag(response))))))))

IdleRequest == [pc |-> "idle", input |-> NoMessage, internal_id |-> "",
                user_text |-> <<>>, history |-> <<>>, response |-> <<>>]
NoOutcome == [outcome |-> "", text |-> <<>>, model_used |-> ""]

WorkflowInit ==
    /\ dedupe_cache = <<>>
    /\ prompt_cache = [cache |-> <<>>, hits |-> 0, misses |-> 0]
    /\ conversations = <<>>
    /\ deliveries = 0
    /\ req = [r \in Requests |-> IdleRequest]
    /\ returned = [seq |-> 0, request |-> "", input |-> NoMessage,
                   result |-> NoOutcome]
    /\ completed = [msg \in Messages \cup IdlessMessages |-> NoOutcome]

\* process_message(msg) is over for request r with result res
Finish(r, msg, res) ==
    /\ req' = [req EXCEPT ![r] = IdleRequest]
    /\ returned' = [seq |-> returned.seq + 1, request |-> r, input |-> msg,
                    result |-> res]
    /\ completed' = [completed EXCEPT ![msg] = res]

\* process_message returns the dict {text, model_used, ...}
Response(text, model_used) ==
    [outcome |-> "response", text |-> text, model_used |-> model_used]

\* process_message is left by an exception, which reaches the connector
Raised(exception) == [outcome |-> "raised", text |-> exception, model_used |-> ""]

\* the "except Exception" at the end of process_message
ErrorResponse ==
    Response(ERROR_PROCESSING_MESSAGE \o EXCEPTION_TEXT \o <<"]">>, "N/A")

\* process_message(msg) up to "await handle_coding_query": field extraction,
\* validation, identity resolution (identity_ok: the resolver answers) and
\* the dedupe lookup
ProcessMessage(r, msg, identity_ok) ==
    /\ req[r].pc = "idle"
    /\ deliveries < MaxDeliveries
    /\ deliveries' = deliveries + 1
    /\ LET k == DedupeKey(msg.platform, msg.external_chat_id, msg.message_id)
           user_text == Strip(msg.text)
           internal_id == IF msg.internal_id # "" THEN msg.internal_id
                          ELSE InternalIdOf(msg.platform, msg.external_user_id)
           cached_response == MessageCacheGet(dedupe_cache, k, clock)
       IN IF msg.text = PyNone
          THEN \* None has no strip()
               /\ Finish(r, msg, Raised(<<"AttributeError">>))
               /\ UNCHANGED dedupe_cache
          ELSE IF msg.external_user_id = "" \/ msg.external_chat_id = ""
                  \/ user_text = <<>>
          THEN /\ Finish(r, msg, Response(ERROR_INVALID_MESSAGE_FORMAT, "N/A"))
               /\ UNCHANGED dedupe_cache
          ELSE IF msg.internal_id = "" /\ ~identity_ok
          THEN /\ Finish(r, msg, Raised(EXCEPTION_TEXT))
               /\ UNCHANGED dedupe_cache
          ELSE /\ dedupe_cache' = CleanupExpired(dedupe_cache, clock)
               /\ IF Truthy(cached_response)
                  THEN Finish(r, msg, Response(cached_response, "dedupe_cache"))
                  ELSE /\ req' = [req EXCEPT ![r] =
                                    [IdleRequest EXCEPT !.pc = "coding",
                                                        !.input = msg,
                                                        !.internal_id = internal_id,
                                                        !.user_text = user_text]]
                       /\ UNCHANGED <<returned, completed>>
    /\ UNCHANGED <<prompt_cache, conversations>>
    /\ UNCHANGED <<clock, dedupeVars, llmVars, callVars>>

\* mutant: the assistant turn is saved before the user turn
SavedTurnsReversed(conv, internal_id, user_text, response, saved) ==
    LET one == SaveConversation(conv, internal_id, "assistant", response)
        two == SaveConversation(one, internal_id, "user", user_text)
    IN IF saved = 0 THEN conv ELSE IF saved = 1 THEN one ELSE two

\* n calls of save_conversation, user turn then assistant turn, of which the
\* first saved succeed and the next one raises
SavedTurns(conv, internal_id, user_text, response, saved) ==
    LET one == SaveConversation(conv, internal_id, "user", user_text)
        two == SaveConversation(one, internal_id, "assistant", response)
    IN IF saved = 0 THEN conv ELSE IF saved = 1 THEN one ELSE two

\* process_message from the answer of handle_coding_query (coding_response, or
\* raises) to the return of the coding answer or to "await _batch_load_context"
CodingSkill(r, coding_response, raises, saved) ==
    /\ req[r].pc = "coding"
    /\ LET f == req[r]
           msg == f.input
           k == DedupeKey(msg.platform, msg.external_chat_id, msg.message_id)
       IN IF ~raises /\ Truthy(coding_response)
          THEN /\ conversations' = SavedTurns(conversations, f.internal_id,
                                              f.user_text, coding_response, saved)
               /\ IF saved = 2
                  THEN /\ dedupe_cache' = MessageCacheSet(dedupe_cache, k,
                                                          coding_response, clock)
                       /\ Finish(r, msg, Response(coding_response, "coding_skill"))
                  ELSE \* a save raised: the inner except falls back to the model
                       /\ req' = [req EXCEPT ![r].pc = "context"]
                       /\ UNCHANGED <<dedupe_cache, returned, completed>>
          ELSE /\ req' = [req EXCEPT ![r].pc = "context"]
               /\ UNCHANGED <<dedupe_cache, conversations, returned, completed>>
    /\ UNCHANGED <<prompt_cache, deliveries>>
    /\ UNCHANGED <<clock, dedupeVars, llmVars, callVars>>

\* _batch_load_context: profile and history are read (context_ok), or one of
\* the reads raises and the outer except answers
LoadContext(r, context_ok) ==
    /\ req[r].pc = "context"
    /\ IF context_ok
       THEN /\ req' = [req EXCEPT
                         ![r].history = LoadRecent(conversations, req[r].internal_id,
                                                   MAX_HISTORY * 2),
                         ![r].pc = "llm"]
            /\ UNCHANGED <<returned, completed>>
       ELSE Finish(r, req[r].input, ErrorResponse)
    /\ UNCHANGED <<dedupe_cache, prompt_cache, conversations, deliveries>>
    /\ UNCHANGED <<clock, dedupeVars, llmVars, callVars>>

\* process_message from the loaded context through the model call: prompt
\* build, ask_llm and sanitation, for a request that is at position at
CallLlmAt(r, at, n, loadable, tokenizer_ok, raw) ==
    /\ req[r].pc = at
    /\ LET f == req[r]
           build == BuildStructuredPrompt(prompt_cache, f.history, f.user_text,
                                          clock, n)
           out == AskLlm(build.prompt, "", 7, WORKFLOW_MAX_TOKENS,
                         llama_models_cache, response_cache, clock,
                         loadable, tokenizer_ok, raw)
       IN /\ prompt_cache' = build.prompt_cache
          /\ llama_models_cache' = out.models
          /\ response_cache' = out.responses
          /\ asks' = asks + 1
          /\ answered' = [caller |-> r, invoked |-> out.invoked, reply |-> out.reply]
          /\ req' = [req EXCEPT
                       ![r].response = Sanitize(ReplyText(out.reply, build.prompt)),
                       ![r].pc = "persist"]
    /\ UNCHANGED <<dedupe_cache, conversations, deliveries, returned, completed>>
    /\ UNCHANGED <<provider, llama_installed, ask>>
    /\ UNCHANGED <<clock, dedupeVars, callVars>>

\* the same as one step, for a request whose context is loaded
CallLlm(r, n, loadable, tokenizer_ok, raw) ==
    CallLlmAt(r, "llm", n, loadable, tokenizer_ok, raw)

\* process_message from the sanitized response to its return: the two saves
\* and the dedupe store; a save that raises is answered by the outer except
Persist(r, saved) ==
    /\ req[r].pc = "persist"
    /\ LET f == req[r]
           msg == f.input
           k == DedupeKey(msg.platform, msg.external_chat_id, msg.message_id)
       IN /\ conversations' = SavedTurns(conversations, f.internal_id,
                                         f.user_text, f.response, saved)
          /\ IF saved = 2
             THEN /\ dedupe_cache' = MessageCacheSet(dedupe_cache, k, f.response,
                                                     clock)
                  /\ Finish(r, msg, Response(f.response, DEFAULT_LLAMA_MODEL))
             ELSE /\ Finish(r, msg, ErrorResponse)
                  /\ UNCHANGED dedupe_cache
    /\ UNCHANGED <<prompt_cache, deliveries>>
    /\ UNCHANGED <<clock, dedupeVars, llmVars, callVars>>

WorkflowNext ==
    \/ \E r \in Requests, msg \in Messages, identity_ok \in BOOLEAN :
          ProcessMessage(r, msg, identity_ok)
    \/ \E r \in Requests, coding_response \in CodingResponses,
          raises \in BOOLEAN, saved \in 0..2 :
          CodingSkill(r, coding_response, raises, saved)
    \/ \E r \in Requests, context_ok \in BOOLEAN : LoadContext(r, context_ok)
    \/ \E r \in Requests, n \in WorkflowTokenCounts, loadable \in ModelFiles,
          tokenizer_ok \in BOOLEAN, raw \in WorkflowOutputs :
          CallLlm(r, n, loadable, tokenizer_ok, raw)
    \/ \E r \in Requests, saved \in 0..2 : Persist(r, saved)

\* one request at a time, served by a model whose tokenizer works
TurnsNext ==
    \/ \E msg \in Messages, identity_ok \in BOOLEAN :
          ProcessMessage("r1", msg, identity_ok)
    \/ \E coding_response \in CodingResponses, raises \in BOOLEAN, saved \in 0..2 :
          CodingSkill("r1", coding_response, raises, saved)
    \/ \E context_ok \in BOOLEAN : LoadContext("r1", context_ok)
    \/ \E n \in WorkflowTokenCounts, loadable \in ModelFiles, raw \in WorkflowOutputs :
          CallLlm("r1", n, loadable, TRUE, raw)
    \/ \E saved \in 0..2 : Persist("r1", saved)

\* one request at a time, for deliveries without a message_id
IdlessNext ==
    \/ \E msg \in IdlessMessages, identity_ok \in BOOLEAN :
          ProcessMessage("r1", msg, identity_ok)
    \/ \E coding_response \in CodingResponses, raises \in BOOLEAN, saved \in 0..2 :
          CodingSkill("r1", coding_response, raises, saved)
    \/ \E context_ok \in BOOLEAN : LoadContext("r1", context_ok)
    \/ \E n \in WorkflowTokenCounts, loadable \in ModelFiles, raw \in WorkflowOutputs :
          CallLlm("r1", n, loadable, TRUE, raw)
    \/ \E saved \in 0..2 : Persist("r1", saved)

\* one request at a time
WorkflowSeqNext ==
    \/ \E msg \in Messages, identity_ok \in BOOLEAN :
          ProcessMessage("r1", msg, identity_ok)
    \/ \E coding_response \in CodingResponses, raises \in BOOLEAN, saved \in 0..2 :
          CodingSkill("r1", coding_response, raises, saved)
    \/ \E context_ok \in BOOLEAN : LoadContext("r1", context_ok)
    \/ \E n \in WorkflowTokenCounts, loadable \in ModelFiles,
          tokenizer_ok \in BOOLEAN, raw \in WorkflowOutputs :
          CallLlm("r1", n, loadable, tokenizer_ok, raw)
    \/ \E saved \in 0..2 : Persist("r1", saved)

(***************************************************************************)
(* process_message coroutines served by one event loop                     *)
(***************************************************************************)
\* The event loop runs one coroutine at a time, and a coroutine keeps the
\* loop until its next await.  process_message awaits handle_coding_query
\* and _batch_load_context; from the resumption after _batch_load_context to
\* its return it awaits nothing: _build_structured_prompt, ask_llm (called
\* as a plain function), _sanitize_output, the saves and the dedupe store run
\* in one piece.

\* the positions at which the coroutine of a request holds the event loop
LoopPositions == {"llm", "inference", "persist"}

\* another coroutine than that of request r holds the event loop
LoopHeldByOther(r) ==
    \E other \in Requests \ {r} : req[other].pc \in LoopPositions

\* process_message calls llm_manager.ask_llm(prompt, ...): inference starts
EnterAskLlm(r) ==
    /\ req[r].pc = "llm"
    /\ req' = [req EXCEPT ![r].pc = "inference"]
    /\ UNCHANGED <<dedupe_cache, prompt_cache, conversations, deliveries,
                   returned, completed>>
    /\ UNCHANGED <<clock, dedupeVars, llmVars, callVars>>

\* ask_llm returns to process_message, which sanitizes the reply
LeaveAskLlm(r, n, loadable, tokenizer_ok, raw) ==
    CallLlmAt(r, "inference", n, loadable, tokenizer_ok, raw)

\* a step of the coroutine of request r, which the event loop can take only
\* while no other coroutine holds it
LoopStep(r) ==
    \/ \E msg \in Messages, identity_ok \in BOOLEAN :
          ~LoopHeldByOther(r) /\ ProcessMessage(r, msg, identity_ok)
    \/ \E coding_response \in CodingResponses, raises \in BOOLEAN, saved \in 0..2 :
          ~LoopHeldByOther(r) /\ CodingSkill(r, coding_response, raises, saved)
    \/ \E context_ok \in BOOLEAN :
          ~LoopHeldByOther(r) /\ LoadContext(r, context_ok)
    \/ ~LoopHeldByOther(r) /\ EnterAskLlm(r)
    \/ \E loadable \in ModelFiles, raw \in WorkflowOutputs :
          ~LoopHeldByOther(r) /\ LeaveAskLlm(r, 100, loadable, TRUE, raw)
    \/ \E saved \in 0..2 : ~LoopHeldByOther(r) /\ Persist(r, saved)

LoopNext == \E r \in Requests : LoopStep(r)

(***************************************************************************)
(* Single functions called on their own                                    *)
(***************************************************************************)
\* _build_structured_prompt is called at most MaxBuilds times in a run, over
\* at most MaxHalfHours half hours
MaxBuilds == 3
MaxHalfHours == 3

\* _sanitize_output is given at most MaxPieces pieces of text in a row
MaxPieces == 3

\* _sanity_filter_response is given a unit of text repeated up to MaxRepeat
\* times
MaxRepeat == 20

NoBuild == [time |-> None, history |-> <<>>, user_text |-> <<>>, hit |-> FALSE,
            prompt |-> <<>>]
NotSanitizing == [input |-> <<>>, applied |-> 0, before |-> <<>>, text |-> <<>>]
NotFiltering == [called |-> FALSE, response |-> <<>>, result |-> <<>>]

NoCacheCall == [op |-> "", key |-> <<>>, value |-> PyNone, time |-> None]

CallInit ==
    /\ built = NoBuild
    /\ sanitizing = NotSanitizing
    /\ filtering = NotFiltering
    /\ cache_call = NoCacheCall
    /\ touched = <<>>

\* a history of six turns that opens with the user saying first
SixTurns(first) ==
    << <<"user", first>>, <<"assistant", <<"H", "i">> >>,
       <<"user", <<"h", "i">> >>, <<"assistant", <<"H", "i">> >>,
       <<"user", <<"h", "i">> >>, <<"assistant", <<"H", "i">> >> >>

\* the histories and the user text that prompts are built for: none, one
\* exchange, and two of more than five turns that end alike
PromptHistories ==
    { <<>>,
      << <<"user", <<"h", "i">> >>, <<"assistant", <<"H", "i">> >> >>,
      SixTurns(<<"y", "o">>), SixTurns(<<"P", "I", "N">>) }
PromptUserTexts == { <<"h", "i">> }

\* _build_structured_prompt(user_profile, history, user_text) with an empty
\* profile
BuildPrompt(history, user_text) ==
    /\ prompt_cache.hits + prompt_cache.misses < MaxBuilds
    /\ LET b == BuildStructuredPrompt(prompt_cache, history, user_text, clock, 0)
       IN /\ prompt_cache' = b.prompt_cache
          /\ built' = [time |-> clock, history |-> history,
                       user_text |-> user_text,
                       hit |-> b.prompt_cache.hits > prompt_cache.hits,
                       prompt |-> b.prompt.text]
    /\ UNCHANGED <<dedupe_cache, conversations, deliveries, req, returned,
                   completed, sanitizing, filtering, cache_call, touched>>
    /\ UNCHANGED <<clock, dedupeVars, llmVars>>

\* half an hour passes
HalfHourPasses ==
    /\ clock < MaxHalfHours * 1800
    /\ clock' = clock + 1800
    /\ UNCHANGED <<dedupeVars, llmVars, wfVars, callVars>>

PromptNext ==
    \/ \E history \in PromptHistories, user_text \in PromptUserTexts :
          BuildPrompt(history, user_text)
    \/ HalfHourPasses

\* the pieces that the texts given to _sanitize_output are made of
SanitizePieces ==
    { <<"A", "s", "s", "i", "s", "t", "a", "n", "t", ":">>, <<" ">>,
      <<"H", "i">>, <<"*">>, <<"[", "N", "o", "t", "e", ":">>, <<"]">> }

\* "Assistant: Hi *waves* [Note: internal] there"
SANITIZE_EXAMPLE ==
    <<"A", "s", "s", "i", "s", "t", "a", "n", "t", ":", " ", "H", "i", " ",
      "*", "w", "a", "v", "e", "s", "*", " ", "[", "N", "o", "t", "e", ":",
      " ", "i", "n", "t", "e", "r", "n", "a", "l", "]", " ", "t", "h", "e",
      "r", "e">>

RECURSIVE Concat(_)
Concat(parts) == IF parts = <<>> THEN <<>> ELSE Head(parts) \o Concat(Tail(parts))

SanitizeInputs ==
    {Concat(q) : q \in UNION {[1..n -> SanitizePieces] : n \in 0..MaxPieces}}
       \cup {SANITIZE_EXAMPLE}

\* response = self._sanitize_output(response), applied to its own result
SanitizeOutput ==
    /\ sanitizing.applied < 2
    /\ sanitizing' = [sanitizing EXCEPT !.applied = @ + 1,
                                        !.before = sanitizing.text,
                                        !.text = Sanitize(sanitizing.text)]
    /\ UNCHANGED <<built, filtering, cache_call, touched>>
    /\ UNCHANGED <<clock, dedupeVars, llmVars, wfVars>>

SanitizeNext == SanitizeOutput

\* the model outputs given to _sanity_filter_response: a unit repeated, with
\* or without a space between the repetitions
FilterUnits == { <<"a">>, <<"h", "a">>, <<"n", "o">> }
Repeat(unit, n, sep) == Join([i \in 1..n |-> unit], sep)
FilterInputs ==
    {Repeat(unit, n, sep) :
        unit \in FilterUnits, n \in 0..MaxRepeat, sep \in {<<>>, <<" ">>}}

\* response = _sanity_filter_response(raw_response)
SanityFilterResponse ==
    /\ ~filtering.called
    /\ filtering' = [filtering EXCEPT !.called = TRUE,
                                      !.result = SanityFilter(filtering.response)]
    /\ UNCHANGED <<built, sanitizing, cache_call, touched>>
    /\ UNCHANGED <<clock, dedupeVars, llmVars, wfVars>>

SanityFilterNext == SanityFilterResponse

\* ---- PromptCache and MessageDedupeCache called on their own ----
\* the caches are constructed with max_size = MaxEntries and given one key
\* more than they hold; PromptCache.get is called at most MaxLookups times
MaxEntries == 2
MaxLookups == 4

\* the keys given to the caches, as the text that tells them apart
CacheKeyTexts == {DecimalStr(i) : i \in 1..(MaxEntries + 1)}

\* PromptCache._make_key for the history string hs
PromptKeyOf(hs) == <<SYSTEM_PROMPT, hs, 0>>

\* the keys q with k moved to (or put at) the end
TouchedLast(q, k) == Append(SelectSeq(q, LAMBDA x : x # k), k)

\* PromptCache.get(system_prompt, user_facts, history_str, time_bucket)
PromptGet(hs) ==
    /\ prompt_cache.hits + prompt_cache.misses < MaxLookups
    /\ LET k == PromptKeyOf(hs)
           got == PromptCacheGet(prompt_cache, k)
       IN /\ prompt_cache' = got.after
          /\ cache_call' = [op |-> "get", key |-> k, value |-> got.value,
                            time |-> clock]
          /\ touched' = IF k \in PromptKeys(prompt_cache.cache)
                        THEN TouchedLast(touched, k) ELSE touched
    /\ UNCHANGED <<dedupe_cache, conversations, deliveries, req, returned,
                   completed, built, sanitizing, filtering>>
    /\ UNCHANGED <<clock, dedupeVars, llmVars>>

\* PromptCache.set(system_prompt, user_facts, history_str, prompt_text,
\* token_count, time_bucket)
PromptSet(hs, token_count) ==
    /\ LET k == PromptKeyOf(hs)
       IN /\ prompt_cache' = PromptCacheSetTo(prompt_cache, k, <<hs, token_count>>,
                                              MaxEntries)
          /\ cache_call' = [op |-> "set", key |-> k, value |-> <<hs, token_count>>,
                            time |-> clock]
          /\ touched' = TouchedLast(touched, k)
    /\ UNCHANGED <<dedupe_cache, conversations, deliveries, req, returned,
                   completed, built, sanitizing, filtering>>
    /\ UNCHANGED <<clock, dedupeVars, llmVars>>

\* MessageDedupeCache(ttl_seconds=MaxTtl, max_size=MaxEntries).get(platform,
\* external_chat_id, message_id)
MessageGet(message_id) ==
    /\ LET k == DedupeKey("api", "c1", message_id)
       IN /\ dedupe_cache' = CleanupExpiredAfter(dedupe_cache, clock, MaxTtl)
          /\ cache_call' = [op |-> "get", key |-> k,
                            value |-> MessageCacheGetWithin(dedupe_cache, k, clock,
                                                            MaxTtl),
                            time |-> clock]
    /\ UNCHANGED <<prompt_cache, conversations, deliveries, req, returned,
                   completed, built, sanitizing, filtering, touched>>
    /\ UNCHANGED <<clock, dedupeVars, llmVars>>

\* MessageDedupeCache(ttl_seconds=MaxTtl, max_size=MaxEntries).set(platform,
\* external_chat_id, message_id, response)
MessageSet(message_id, response) ==
    /\ LET k == DedupeKey("api", "c1", message_id)
       IN /\ dedupe_cache' = MessageCacheSetTo(dedupe_cache, k, response, clock,
                                               MaxEntries)
          /\ cache_call' = [op |-> "set", key |-> k, value |-> response,
                            time |-> clock]
    /\ UNCHANGED <<prompt_cache, conversations, deliveries, req, returned,
                   completed, built, sanitizing, filtering, touched>>
    /\ UNCHANGED <<clock, dedupeVars, llmVars>>

\* the responses stored by these calls
CacheResponses == { <<"H", "i">>, <<"o", "k">> }

MessageCacheNext ==
    \/ \E message_id \in CacheKeyTexts : MessageGet(message_id)
    \/ \E message_id \in CacheKeyTexts, response \in CacheResponses :
          MessageSet(message_id, response)
    \/ Tick

PromptCacheNext ==
    \/ \E hs \in CacheKeyTexts : PromptGet(hs)
    \/ \E hs \in CacheKeyTexts, token_count \in 1..2 : PromptSet(hs, token_count)

\* the state after construction of every component
Init == clock = 0 /\ DedupeInit /\ LlmInit /\ WorkflowInit /\ CallInit

\* one configuration of the components a specification does not exercise
DedupeDefault == ttl_seconds = MaxTtl /\ max_size = MaxSize
LlmDefault == provider = "llama.cpp" /\ llama_installed

\* the initial states of each specification
InitDedupe == Init /\ LlmDefault
InitLlm == Init /\ DedupeDefault
InitWorkflow == Init /\ DedupeDefault /\ LlmDefault

SpecDedupe == InitDedupe /\ [][DedupeNext]_vars

SpecDedupeSeq == InitDedupe /\ [][DedupeSeqNext]_vars

\* no DedupeCache has been constructed yet
InitConstruct ==
    /\ clock = 0 /\ NotConstructed /\ LlmInit /\ LlmDefault /\ WorkflowInit
    /\ CallInit

SpecConstruct == InitConstruct /\ [][ConstructNext]_vars

SpecLlm == InitLlm /\ [][LlmNext]_vars

SpecModels == InitLlm /\ [][ModelsNext]_vars

SpecResponses == InitLlm /\ [][ResponsesNext]_vars

SpecWorkflow == InitWorkflow /\ [][WorkflowNext]_vars

SpecWorkflowSeq == InitWorkflow /\ [][WorkflowSeqNext]_vars

SpecTurns == InitWorkflow /\ [][TurnsNext]_vars

SpecLoop == InitWorkflow /\ [][LoopNext]_vars

SpecPrompt == InitWorkflow /\ [][PromptNext]_vars

SpecPromptCache == InitWorkflow /\ [][PromptCacheNext]_vars

SpecMessageCache == InitWorkflow /\ [][MessageCacheNext]_vars

SpecIdless == InitWorkflow /\ [][IdlessNext]_vars

\* _sanitize_output is given any of SanitizeInputs
InitSanitize ==
    /\ clock = 0 /\ DedupeInit /\ DedupeDefault /\ LlmInit /\ LlmDefault
    /\ WorkflowInit
    /\ built = NoBuild
    /\ filtering = NotFiltering
    /\ cache_call = NoCacheCall
    /\ touched = <<>>
    /\ sanitizing \in {[input |-> x, applied |-> 0, before |-> x, text |-> x] :
                          x \in SanitizeInputs}

SpecSanitize == InitSanitize /\ [][SanitizeNext]_vars

\* _sanity_filter_response is given any of FilterInputs
InitSanityFilter ==
    /\ clock = 0 /\ DedupeInit /\ DedupeDefault /\ LlmInit /\ LlmDefault
    /\ WorkflowInit
    /\ built = NoBuild
    /\ sanitizing = NotSanitizing
    /\ cache_call = NoCacheCall
    /\ touched = <<>>
    /\ filtering \in {[called |-> FALSE, response |-> x, result |-> <<>>] :
                         x \in FilterInputs}

SpecSanityFilter == InitSanityFilter /\ [][SanityFilterNext]_vars

(***************************************************************************)
(* Properties of DedupeCache                                               *)
(***************************************************************************)
\* the step is thread t leaving check()'s locked section
Finishes(t) == pc[t] = "locked" /\ pc'[t] = "idle"

\* position of key k in dict d (0 when absent)
IndexOf(d, k) ==
    IF k \in DictKeys(d) THEN CHOOSE i \in 1..Len(d) : d[i].key = k ELSE 0
KeysBefore(d, k) == {d[i].key : i \in 1..(IndexOf(d, k) - 1)}
KeysAfter(d, k) == {d[i].key : i \in (IndexOf(d, k) + 1)..Len(d)}

\* every entry of d would still count as a duplicate at time n
AllUnexpired(d, n) ==
    \A i \in 1..Len(d) : ttl_seconds <= 0 \/ (n - d[i].ts) < ttl_seconds

\* C2: with max_size = N > 0 the cache never holds more than N entries,
\* whatever the keys, the timestamps and the interleaving of the check() calls.
C2_SizeBounded == max_size > 0 => Len(cache) <= max_size

\* C2 witness: the cache is full and the size limit has removed a key
C2_Witness ==
    /\ max_size > 0
    /\ Len(cache) = max_size
    /\ \E k \in Keys : insertedAt[k] = Evicted

\* C3: inserting a new key into a cache holding max_size unexpired entries
\* evicts exactly one entry, the oldest-inserted one among those present.
C3_EvictsOldestInserted ==
    [][\A t \in Threads :
        (/\ Finishes(t)
         /\ max_size > 0
         /\ key[t] \notin DictKeys(cache)
         /\ Len(cache) = max_size
         /\ AllUnexpired(cache, now[t]))
        => DictKeys(cache') = (DictKeys(cache) \ {fifo[1]}) \cup {key[t]}]_vars

\* C4: an expired key that is re-checked is treated as new (False) and is
\* re-inserted at the end of the eviction order with its new timestamp.
C4_ExpiredRecheckGoesLast ==
    [][\A t \in Threads :
        (/\ Finishes(t)
         /\ ttl_seconds > 0
         /\ existing_timestamp[t] # None
         /\ now[t] - existing_timestamp[t] >= ttl_seconds)
        => /\ last'.value = FALSE
           /\ Len(cache') > 0
           /\ cache'[Len(cache')] = [key |-> key[t], ts |-> now[t]]]_vars

\* C5: with ttl_seconds = T > 0, a check of a key that was inserted at t0 and
\* not size-evicted since returns True when fewer than T seconds have elapsed
\* and False (first-check semantics) when T or more have.
C5_TtlWindow ==
    [][\A t \in Threads :
        (Finishes(t) /\ ttl_seconds > 0 /\ insertedAt[key[t]] >= 0)
        => LET elapsed == now[t] - insertedAt[key[t]]
           IN /\ elapsed < ttl_seconds => last'.value = TRUE
              /\ elapsed >= ttl_seconds
                   => last'.value = FALSE /\ insertedAt'[key[t]] = now[t]]_vars

\* C5 witness: a key still in the dict was re-checked after its TTL and
\* treated as new
C5_Witness ==
    /\ ttl_seconds > 0
    /\ last.returned /\ last.value = FALSE
    /\ last.existing # None
    /\ insertedAt[last.key] >= last.existing + ttl_seconds

\* C6: a check that returns True leaves the key's stored timestamp (the time
\* of its insertion) and its place in the eviction order as they were.
C6_HitFrame ==
    [][\A t \in Threads :
        (Finishes(t) /\ last'.value = TRUE)
        => LET k == key[t]
           IN /\ k \in DictKeys(cache')
              /\ DictGet(cache', k) = DictGet(cache, k)
              /\ DictGet(cache', k) = insertedAt[k]
              /\ insertedAt'[k] = insertedAt[k]
              /\ KeysBefore(cache', k) \subseteq KeysBefore(cache, k)
              /\ KeysAfter(cache', k) \subseteq KeysAfter(cache, k)]_vars

\* C6 witness: a hit, later than the insertion, on a key that other keys follow
C6_Witness ==
    /\ last.returned /\ last.value = TRUE
    /\ last.existing < clock
    /\ KeysAfter(cache, last.key) # {}
    /\ DictGet(cache, last.key) = last.existing

\* C7: of the concurrent checks of a key, within the TTL and without size
\* eviction, the first to return gets False and every other one gets True.
C7_OneFirstCheck ==
    [][\A t \in Threads :
        Finishes(t)
        => LET k == key[t]
           IN /\ insertedAt[k] = None => last'.value = FALSE
              /\ (/\ insertedAt[k] >= 0
                  /\ (ttl_seconds = 0 \/ clock - insertedAt[k] < ttl_seconds))
                   => last'.value = TRUE]_vars

\* C7 witness: a thread that called check(k) before the inserting call did is
\* still waiting for the lock when that call has returned False
C7_Witness ==
    \E t \in Threads :
        /\ pc[t] = "called"
        /\ key[t] = last.key
        /\ last.returned /\ last.value = FALSE /\ last.existing = None
        /\ now[t] < insertedAt[key[t]]

\* C8: check() with a None or empty key returns False and leaves the cache
\* (entries, timestamps, order, size) as it was.
C8_FalsyKeyFrame ==
    [][(last' # last /\ last'.key \in FalsyKeys)
        => /\ last'.value = FALSE
           /\ UNCHANGED <<cache, lock, fifo, insertedAt>>]_vars

\* C8 witness: check("") has returned False on a cache that holds entries
C8_Witness ==
    /\ last.returned /\ last.key \in FalsyKeys /\ last.value = FALSE
    /\ cache # <<>>

\* C19: DedupeCache(ttl_seconds, max_size) raises ValueError exactly when one
\* of the two is negative, and then no instance exists: no attribute is set,
\* there is no cache and no check has been made; with non-negative arguments
\* (0 included) the instance exists with these limits
C19_ConstructorValidates ==
    /\ construction.outcome # ""
          => (construction.outcome = "ValueError"
                 <=> (construction.ttl_seconds < 0 \/ construction.max_size < 0))
    /\ construction.outcome # "DedupeCache"
          => /\ ttl_seconds = None /\ max_size = None
             /\ cache = <<>>
             /\ NoCheck
    /\ construction.outcome = "DedupeCache"
          => /\ ttl_seconds = construction.ttl_seconds
             /\ max_size = construction.max_size

\* C19 witness: a construction with a valid ttl_seconds and a negative
\* max_size has raised ValueError
C19_Witness ==
    /\ construction.outcome = "ValueError"
    /\ construction.ttl_seconds >= 0
    /\ construction.max_size < 0

(***************************************************************************)
(* Properties of ask_llm                                                   *)
(***************************************************************************)
\* C9: whenever ask_llm has tokenized the prompt and goes on to inference, the
\* max_tokens it passes is min(requested max_tokens, context window - prompt
\* tokens - reserved buffer), so prompt tokens + max_tokens + buffer fit the
\* context window, and the budget is at least the minimum; the only way
\* ask_llm returns from the budgeting step is the prompt-too-long error,
\* returned without inference exactly for a budget below the minimum.
C9_TokenBudget ==
    [][\A a \in Callers :
          LET n == Tokenize(ask[a].prompt)
              available == 2048 - n - 16
          IN /\ (ask[a].pc = "budget" /\ ask'[a].pc = "infer"
                    /\ ask'[a].prompt_tokens # None) =>
                   /\ ask'[a].prompt_tokens = n
                   /\ available >= 64
                   /\ ask'[a].capped_max_tokens = Min(ask[a].max_tokens, available)
                   /\ n + ask'[a].capped_max_tokens + 16 <= 2048
             /\ (ask[a].pc = "budget" /\ ask'[a].pc = "idle") =>
                   /\ available < 64
                   /\ answered' = [caller |-> a, invoked |-> FALSE,
                                   reply |-> PromptTooLong(n)]
             /\ (ask[a].pc = "infer" /\ ask'[a].pc = "idle") =>
                   /\ answered'.invoked
                   /\ ask[a].prompt_tokens # None =>
                         ask[a].capped_max_tokens = Min(ask[a].max_tokens, available)
    ]_vars

\* C9 witness: one call is about to run inference on a budget cut down to
\* exactly the minimum still accepted, and a call one token longer has just
\* been refused as too long.
C9_Witness ==
    \E a \in Callers :
        /\ ask[a].pc = "infer" /\ ask[a].prompt_tokens = 1968
        /\ ask[a].capped_max_tokens = 64
        /\ ask[a].capped_max_tokens < ask[a].max_tokens
        /\ answered.reply = PromptTooLong(1969) /\ ~answered.invoked

\* a load is in progress: a caller of ask_llm is between its decision to load
\* and the end of _cleanup_excess_models
LoadInProgress == \E a \in Callers : ask[a].pc \in {"load", "cleanup", "evict"}

\* C11: with MAX_MODELS_IN_CACHE = 1, loading a model while another one is
\* resident evicts the older model and keeps the newly loaded one: the
\* eviction of ask_llm never deletes the most recently cached model, and a
\* preload into a cache that holds another model leaves the new model alone
\* resident (so that a later call against the older model has to load it)
C11_NewerModelReplacesOlder ==
    [][/\ \A a \in Callers :
             (ask[a].pc = "evict" /\ llama_models_cache' # llama_models_cache)
             => llama_models_cache[Len(llama_models_cache)]
                   \in SeqRange(llama_models_cache')
       /\ \A m \in Models :
             (/\ ask' = ask
              /\ llama_models_cache # <<>>
              /\ m \notin SeqRange(llama_models_cache)
              /\ m \in SeqRange(llama_models_cache'))
             => llama_models_cache' = <<m>>
      ]_vars

\* C12: whenever no load is in progress, at most MAX_MODELS_IN_CACHE models
\* are resident, after any sequence of preload_llama_model and (concurrent)
\* ask_llm calls
C12_ResidentModelsBounded ==
    ~LoadInProgress => Len(llama_models_cache) <= MAX_MODELS_IN_CACHE

\* C14: ask_llm never leaves by an exception, and a failed load and a
\* tokenizer failure each end the call with one of its bracketed error
\* strings
C14_FailuresBecomeErrorStrings ==
    [][\A a \in Callers :
          (ask[a].pc # "idle" /\ ask'[a].pc = "idle")
          => /\ answered'.reply.kind # "raised"
             /\ ask[a].pc = "load" => answered'.reply.kind = "failed_to_load"
             /\ (ask[a].pc = "infer" /\ ask[a].prompt_tokens = None)
                => answered'.reply.kind \notin {"text", "raised"}
      ]_vars

\* the entry of key k in the response cache rc
CachedUnder(rc, k) == {rc[i] : i \in {j \in 1..Len(rc) : rc[j].key = k}}

\* C23: a reply that the model generated is stored under (prompt,
\* temperature, max_tokens) with the time of the call; an ask_llm call that
\* finds an entry of its key stored less than RESPONSE_CACHE_TTL ago returns
\* the stored reply without going to the model; one that finds an entry of
\* that age or older drops it and goes on to the model
C23_ResponseCacheWithinTtl ==
    [][\A a \in Callers :
          /\ (ask[a].pc = "infer" /\ ask'[a].pc = "idle"
                 /\ answered'.reply.kind = "text")
             => CachedUnder(response_cache',
                            MakeKey(ask[a].prompt, ask[a].temperature,
                                    ask[a].max_tokens))
                   = {[key |-> MakeKey(ask[a].prompt, ask[a].temperature,
                                       ask[a].max_tokens),
                       response |-> answered'.reply.text, ts |-> clock]}
          /\ \A p \in Prompts, m \in ModelNameArgs, temp \in TemperatureArgs,
                mt \in MaxTokensArgs :
                (AskBegin(a, p, m, temp, mt) /\ provider = "llama.cpp"
                    /\ llama_installed)
                => \A e \in CachedUnder(response_cache,
                                        MakeKey(p, temp, IF mt = None
                                                         THEN DEFAULT_MAX_TOKENS
                                                         ELSE mt)) :
                      IF clock - e.ts < RESPONSE_CACHE_TTL
                      THEN /\ answered' = [caller |-> a, invoked |-> FALSE,
                                           reply |-> TextReply(e.response)]
                           /\ ask'[a].pc = "idle"
                           /\ response_cache' = response_cache
                      ELSE /\ ask'[a].pc = "select"
                           /\ CachedUnder(response_cache', e.key) = {}
      ]_vars

\* C23 witness: a call made half a TTL after a reply was stored has been
\* answered with the stored reply, without inference
C23_Witness ==
    /\ clock = RESPONSE_CACHE_TTL \div 2
    /\ asks = 2
    /\ ~answered.invoked
    /\ answered.reply.kind = "text"
    /\ \E i \in 1..Len(response_cache) :
          /\ response_cache[i].response = answered.reply.text
          /\ response_cache[i].ts = 0

\* C24: an ask_llm call that comes to model selection while a model is
\* resident takes a resident model (the preferred one if it is resident),
\* loads nothing and keeps that model up to inference; a call turns to
\* loading only when nothing is resident
C24_ResidentModelPreferred ==
    [][\A a \in Callers :
          /\ (ask[a].pc = "select" /\ ask'[a].pc # "select")
             => IF llama_models_cache # <<>>
                THEN /\ ask'[a].pc = "budget"
                     /\ ask'[a].llama_model \in SeqRange(llama_models_cache)
                     /\ PreferredModel(ask[a]) \in SeqRange(llama_models_cache)
                           => ask'[a].llama_model = PreferredModel(ask[a])
                     /\ llama_models_cache' = llama_models_cache
                ELSE ask'[a].pc = "load"
          /\ (ask[a].pc # "load" /\ ask'[a].pc = "load") => llama_models_cache = <<>>
          /\ (ask[a].pc \in {"budget", "infer"} /\ ask'[a].pc \in {"budget", "infer"})
             => ask'[a].llama_model = ask[a].llama_model
      ]_vars

\* C24 witness: a call that names model B is about to run inference on A,
\* the only resident model
C24_Witness ==
    \E a \in Callers :
        /\ ask[a].model_name = "B"
        /\ ask[a].pc = "infer"
        /\ ask[a].llama_model = "A"
        /\ llama_models_cache = <<"A">>

\* caller a has selected or loaded model m and has not yet returned: it is
\* running inference on m or is on its way to it
ServedBy(a, m) ==
    /\ ask[a].llama_model = m
    /\ ask[a].pc \in {"cleanup", "evict", "budget", "infer"}

\* C22: no model is deleted from llama_models_cache while an ask_llm call
\* that has selected it is running or about to run inference on it
C22_NoEvictionOfModelInUse ==
    [][\A m \in Models :
          (m \in SeqRange(llama_models_cache) /\ m \notin SeqRange(llama_models_cache'))
          => \A a \in Callers : ~ServedBy(a, m)]_vars

(***************************************************************************)
(* Properties of ChatWorkflow.process_message                              *)
(***************************************************************************)
\* C1: when process_message is called again with an input for which an earlier
\* call has returned a reply (not an error response), and the second call
\* returns, its model_used is "dedupe_cache" and its text is the text the
\* first call returned.
C1_RedeliveryServedFromCache ==
    [][\A msg \in Messages :
          (/\ returned'.seq # returned.seq
           /\ returned'.input = msg
           /\ completed[msg].outcome = "response"
           /\ completed[msg].model_used # "N/A"
           /\ returned'.result.outcome = "response")
          => /\ returned'.result.model_used = "dedupe_cache"
             /\ returned'.result.text = completed[msg].text
    ]_vars

\* C10: no call of process_message ends with an exception reaching the
\* connector: every call ends with a response dictionary.
C10_NoExceptionEscapes == returned.result.outcome # "raised"

\* C13: a profile or history store that raises during the context load does
\* not end the turn: every call that is loading its context goes on to the
\* prompt build and the model call (with what was loaded, or with nothing)
C13_ContextFailureFallsBack ==
    [][\A r \in Requests :
          (req[r].pc = "context" /\ req'[r] # req[r]) => req'[r].pc = "llm"]_vars

\* a required field of the message is missing, None or empty after trimming
RequiredFieldMissing(msg) ==
    \/ msg.external_user_id = ""
    \/ msg.external_chat_id = ""
    \/ msg.text = PyNone
    \/ Strip(msg.text) = <<>>

\* C15: a message with a missing, None or blank required field is answered
\* with the "invalid message format" error response (model_used "N/A"),
\* without an exception and without any change to the dedupe cache, the
\* prompt cache, the history or the model's caches
C15_InvalidInputShortCircuits ==
    [][\A msg \in Messages :
          (returned'.seq # returned.seq /\ returned'.input = msg
           /\ RequiredFieldMissing(msg))
          => /\ returned'.result = Response(ERROR_INVALID_MESSAGE_FORMAT, "N/A")
             /\ UNCHANGED <<dedupe_cache, prompt_cache, conversations,
                            llama_models_cache, response_cache, asks>>]_vars

\* s ends with the text suffix
EndsWith(s, suffix) ==
    /\ Len(suffix) <= Len(s)
    /\ SubSeq(s, Len(s) - Len(suffix) + 1, Len(s)) = suffix

\* C16: a prompt build that follows a build for the same history made in
\* another clock hour misses the prompt cache, and the date/time block of
\* every prompt, cache hit or not, is the one of the time of its build
C16_HourlyBucketAndFreshDateTime ==
    [][prompt_cache' # prompt_cache
       => /\ (/\ built.time # None
               /\ built.history = built'.history
               /\ built.time \div 3600 # clock \div 3600)
              => ~built'.hit
          /\ built'.time = clock
          /\ EndsWith(built'.prompt,
                      Join(<<DateTimeBlock(clock),
                             INPUT_USER \o built'.user_text,
                             INPUT_ASSISTANT>>, <<"\n">>))
      ]_vars

\* C16 witness: a build made in the second hour has missed the cache although
\* the cache holds the base prompt of the same history from the first hour,
\* and builds have hit the cache
C16_Witness ==
    /\ built.time = 3600
    /\ ~built.hit
    /\ prompt_cache.hits > 0
    /\ \E i \in 1..Len(prompt_cache.cache) :
          prompt_cache.cache[i].key =
             <<SYSTEM_PROMPT, HistoryStr(built.history), 0>>

\* C17: _sanitize_output is idempotent, and it turns
\* "Assistant: Hi *waves* [Note: internal] there" into "Hi there"
C17_SanitizeIdempotent ==
    /\ sanitizing.applied = 2 => sanitizing.text = sanitizing.before
    /\ (sanitizing.applied >= 1 /\ sanitizing.input = SANITIZE_EXAMPLE)
          => sanitizing.text = <<"H", "i", " ", "t", "h", "e", "r", "e">>

\* C18: the sanity filter replaces by one of its canned texts every response
\* that is empty, that has one character 11 or more times in a row or that
\* has the same word more than 3 times in a row; "ha" repeated 20 times is
\* replaced
C18_DegenerateOutputReplaced ==
    filtering.called =>
        /\ (\/ Strip(filtering.response) = <<>>
            \/ HasCharRun(filtering.response, 11)
            \/ MaxConsecutive(Split(filtering.response), 2, 1, 1) > 3)
           => /\ filtering.result \in {CANNED_REPHRASE, CANNED_INVALID,
                                        CANNED_UNSURE}
              /\ filtering.result # filtering.response
        /\ filtering.response = Repeat(<<"h", "a">>, 20, <<>>)
           => filtering.result # filtering.response

\* the step is request r completing its turn with a reply of the coding
\* skill or of the model
RepliesNow(r) ==
    /\ req[r].pc \in {"coding", "persist"}
    /\ req'[r].pc = "idle"
    /\ returned'.request = r
    /\ returned'.result.outcome = "response"
    /\ returned'.result.model_used # "N/A"

\* C20: a turn that completes with a reply has appended the user turn and
\* then the assistant turn to the history, and stores the reply in the dedupe
\* cache under platform:chat_id:message_id of its message; nothing is stored
\* in the dedupe cache at any other moment (not before the reply exists and
\* both turns are appended)
C20_TurnsThenDedupeStore ==
    [][/\ \A r \in Requests :
             RepliesNow(r)
             => LET msg == req[r].input
                    k == <<msg.platform, msg.external_chat_id, msg.message_id>>
                    n == Len(conversations')
                IN /\ n >= 2
                   /\ conversations'[n - 1] =
                         [internal_id |-> req[r].internal_id, role |-> "user",
                          message |-> req[r].user_text]
                   /\ conversations'[n] =
                         [internal_id |-> req[r].internal_id, role |-> "assistant",
                          message |-> returned'.result.text]
                   /\ \E i \in 1..Len(dedupe_cache') :
                         /\ dedupe_cache'[i].key = k
                         /\ dedupe_cache'[i].response = returned'.result.text
       /\ \A i \in 1..Len(dedupe_cache') :
             dedupe_cache'[i] \notin SeqRange(dedupe_cache)
             => \E r \in Requests :
                   /\ RepliesNow(r)
                   /\ dedupe_cache'[i].key =
                         <<req[r].input.platform, req[r].input.external_chat_id,
                           req[r].input.message_id>>
      ]_vars

\* C20 witness: a turn has been answered by the model; its two turns are in
\* the history and its reply is in the dedupe cache
C20_Witness ==
    /\ returned.result.outcome = "response"
    /\ returned.result.model_used = DEFAULT_LLAMA_MODEL
    /\ Len(conversations) >= 2
    /\ conversations[Len(conversations)].role = "assistant"
    /\ \E i \in 1..Len(dedupe_cache) :
          /\ dedupe_cache[i].key = <<returned.input.platform,
                                     returned.input.external_chat_id,
                                     returned.input.message_id>>
          /\ dedupe_cache[i].response = returned.result.text

(***************************************************************************)
(* Properties of process_message on one event loop                         *)
(***************************************************************************)
\* request r has a step to take: a call in progress, or a delivery to come
HasWork(r) == req[r].pc # "idle" \/ deliveries < MaxDeliveries

\* C21: while the inference of one request is running, every other request
\* of the same event loop that has a step to take can take it
C21_InferenceIsSuspensionPoint ==
    \A r \in Requests :
        req[r].pc = "inference"
        => \A other \in Requests \ {r} : HasWork(other) => ENABLED LoopStep(other)

(***************************************************************************)
(* Properties of PromptCache and MessageDedupeCache                        *)
(***************************************************************************)
\* the last n elements of the sequence q (all of them if it has fewer)
LastOf(q, n) == SubSeq(q, Max(1, Len(q) - n + 1), Len(q))

\* C25: PromptCache never holds more than max_size entries, and it holds
\* exactly the keys touched last by a get hit or a set, in the order of those
\* touches: a hit makes its entry the most recently used one with its value
\* unchanged, and what a set evicts is the least recently touched entry
C25_PromptCacheIsLru ==
    /\ Len(prompt_cache.cache) <= MaxEntries
    /\ [i \in 1..Len(prompt_cache.cache) |-> prompt_cache.cache[i].key]
          = LastOf(touched, MaxEntries)
    /\ (cache_call.op # "" /\ cache_call.value # PyNone)
          => prompt_cache.cache[Len(prompt_cache.cache)]
                = [key |-> cache_call.key, value |-> cache_call.value]

\* C25 witness: a get has hit the older entry of a full cache, and a set of
\* a third key has then evicted the other one
C25_Witness ==
    /\ cache_call.op = "set"
    /\ Len(touched) = MaxEntries + 1
    /\ prompt_cache.hits > 0
    /\ Len(prompt_cache.cache) = MaxEntries
    /\ prompt_cache.cache[1].key = PromptKeyOf(DecimalStr(1))
    /\ touched[1] = PromptKeyOf(DecimalStr(2))

\* C26: MessageDedupeCache.get returns only a response stored at most
\* ttl_seconds ago; a set leaves at most max_size entries, and the entries it
\* evicts were stored no later than any entry it keeps
C26_MessageCacheTtlAndFifo ==
    [][/\ (cache_call'.op = "get" /\ cache_call' # cache_call
              /\ cache_call'.value # PyNone)
          => \E i \in 1..Len(dedupe_cache) :
                /\ dedupe_cache[i].key = cache_call'.key
                /\ dedupe_cache[i].response = cache_call'.value
                /\ clock - dedupe_cache[i].ts <= MaxTtl
       /\ (cache_call'.op = "set" /\ dedupe_cache' # dedupe_cache)
          => /\ Len(dedupe_cache') <= MaxEntries
             /\ \A i \in 1..Len(dedupe_cache), j \in 1..Len(dedupe_cache') :
                   dedupe_cache[i].key \notin MessageKeys(dedupe_cache')
                   => dedupe_cache[i].ts <= dedupe_cache'[j].ts
      ]_vars

(***************************************************************************)
(* Properties of what process_message persists                             *)
(***************************************************************************)
\* the turns of conv from position i on are user turns each followed by the
\* assistant turn of the same user
RECURSIVE TurnsInPairs(_, _)
TurnsInPairs(conv, i) ==
    \/ i > Len(conv)
    \/ /\ i + 1 <= Len(conv)
       /\ conv[i].role = "user"
       /\ conv[i + 1].role = "assistant"
       /\ conv[i + 1].internal_id = conv[i].internal_id
       /\ TurnsInPairs(conv, i + 2)

\* C27: every call of process_message appends nothing or one user turn
\* followed by one assistant turn, so that between calls made one after the
\* other the history is a sequence of such pairs
C27_TurnsAppendedInPairs ==
    (\A r \in Requests : req[r].pc = "idle") => TurnsInPairs(conversations, 1)

\* s begins with the text prefix
StartsWith(s, prefix) ==
    /\ Len(prefix) <= Len(s)
    /\ SubSeq(s, 1, Len(prefix)) = prefix

\* the replies by which ask_llm reports that no model could be loaded, that
\* the prompt is too long, or that inference raised
IsModelFailure(text) ==
    \/ text = ERROR_FAILED_TO_LOAD
    \/ StartsWith(text, ERROR_PROMPT_TOO_LONG_1)
    \/ StartsWith(text, ERROR_DURING_INFERENCE)

\* C28: a reply that reports a model failure is not stored in the dedupe
\* cache and is not persisted as an assistant turn
C28_ModelFailuresNotKept ==
    /\ \A i \in 1..Len(dedupe_cache) : ~IsModelFailure(dedupe_cache[i].response)
    /\ \A i \in 1..Len(conversations) :
          conversations[i].role = "assistant"
          => ~IsModelFailure(conversations[i].message)

(***************************************************************************)
(* Properties of _build_structured_prompt's sections                       *)
(***************************************************************************)
\* C29: the prompt returned by _build_structured_prompt, on a cache hit or a
\* miss, opens with the base prompt of the history passed to that call (the
\* profile is empty): its history section lists exactly those turns
C29_PromptListsOwnHistory ==
    built.time # None
    => StartsWith(built.prompt,
                  BasePrompt(built.history) \o <<"\n">> \o DATETIME_HEADING)

(***************************************************************************)
(* Properties of deliveries without a message_id                           *)
(***************************************************************************)
\* C30: a delivery without a message_id is answered from the dedupe cache
\* only if a delivery with its own text has been processed: it is never
\* answered with the response cached for a delivery with another text
C30_IdlessDeliveriesNotDuplicates ==
    [][\A msg \in IdlessMessages :
          (/\ returned'.seq # returned.seq
           /\ returned'.input = msg
           /\ returned'.result.model_used = "dedupe_cache")
          => \E i \in 1..Len(conversations) :
                /\ conversations[i].role = "user"
                /\ conversations[i].message = Strip(msg.text)
      ]_vars

====
